---------------------------- MODULE Spec2Model ----------------------------
(***************************************************************************)
(* Smart Typography: the CodeMirror-6 substitution engine of src/main.ts   *)
(* together with the declarative rule table of src/unnamed/part_003.       *)
(*                                                                         *)
(* A document is a sequence of characters, each one a string.  ASCII       *)
(* characters stand for themselves; every other character is written as    *)
(* its code point ("U+2013" is the en dash).  Offsets are 0-based as in    *)
(* the editor: the character at offset p is doc[p + 1].                    *)
(***************************************************************************)
EXTENDS Integers, Sequences, FiniteSets

VARIABLES
    doc,                    \* the buffer of the editor
    sel,                    \* the selection: a sequence of ranges [anchor, head]
    prevTransactionState,   \* the StateField: NoRecord or the stored revert spec
    settings,               \* plugin.settings
    inputRules,             \* plugin.inputRules, the active rule list
    last                    \* history: what the last event did (not program state)

vars == <<doc, sel, prevTransactionState, settings, inputRules, last>>

(***************************************************************************)
(* Bounds of the model.                                                    *)
(***************************************************************************)
MaxLen == 3        \* longest buffer explored by Spec
MaxRun == 7        \* longest run of dash keystrokes that is counted
MaxDashLen == 5    \* longest buffer explored by SpecDash
MaxAge == 2        \* events since the last substitution that are counted
MaxQuoteLen == 3   \* longest buffer explored by SpecQuote
MaxCodeLen == 2    \* longest buffer explored by SpecCode
MaxMultiLen == 3   \* longest buffer explored by SpecMulti
MaxPairLen == 4    \* longest buffer explored by SpecPair
MaxFunctionLen == 3 \* longest buffer explored by SpecFunction
MaxSessionLen == 2  \* longest buffer of an editor explored by SpecSessions
MaxSettingsLen == 2 \* longest buffer explored by SpecSettings
MaxPassLen == 3     \* longest buffer explored by SpecPass
MaxSkipLen == 4     \* longest buffer explored by SpecSkip
MaxVetoLen == 3     \* longest buffer explored by SpecVeto
MaxLegacyLen == 3   \* longest buffer typed into by SpecLegacy

(***************************************************************************)
(* Characters.                                                             *)
(***************************************************************************)
dashChar == "-"
enDashChar == "U+2013"
emDashChar == "U+2014"
ellipsisChar == "U+2026"
dquote == "\""
squote == "'"
newline == "\n"

Whitespace == {" ", newline}

DEFAULT_SETTINGS ==
    [ curlyQuotes |-> TRUE, emDash |-> TRUE, ellipsis |-> TRUE,
      arrows |-> TRUE, comparisons |-> TRUE, fractions |-> FALSE,
      guillemets |-> FALSE, skipEnDash |-> FALSE,
      openSingle |-> <<"U+2018">>, closeSingle |-> <<"U+2019">>,
      openDouble |-> <<"U+201C">>, closeDouble |-> <<"U+201D">>,
      openGuillemet |-> <<"U+00AB">>, closeGuillemet |-> <<"U+00BB">>,
      leftArrow |-> <<"U+2190">>, rightArrow |-> <<"U+2192">> ]

(***************************************************************************)
(* Regular expressions of the rule table.  Every contextMatch has the      *)
(* shape  [(?:^|\s)] c1 c2 .. cn $  where each ci is a character class;    *)
(* /.*$/ is the pattern with no class at all.                              *)
(***************************************************************************)
RegExp(anchored, classes) == [anchored |-> anchored, classes |-> classes]

\* the test without the `$`: a match anywhere in the look-behind
RegExpTestAnywhere(re, s) ==
    \E k \in 0..(Len(s) - Len(re.classes)) :
        \A i \in 1..Len(re.classes) : s[k + i] \in re.classes[i]

\* RegExp.prototype.test on a look-behind string: an unanchored search for a
\* match that ends at the end of the string.
RegExpTest(re, s) ==
    LET n == Len(re.classes)
        m == Len(s)
    IN  /\ n <= m
        /\ \A i \in 1..n : s[m - n + i] \in re.classes[i]
        /\ re.anchored => (m = n \/ s[m - n] \in Whitespace)

\* [\s\{\[\(\<'"‘“]
OpenQuoteContext ==
    Whitespace \cup {"{", "[", "(", "<", squote, dquote, "U+2018", "U+201C"}

(***************************************************************************)
(* The rule table (InputRule).  `to` is a string or a function of the      *)
(* settings; the function is the concatenation of the named settings.      *)
(***************************************************************************)
Literal(s) == [fn |-> FALSE, value |-> s]
FromSettings(fields) == [fn |-> TRUE, value |-> fields]

InputRule(trigger, from, to, contextMatch) ==
    [trigger |-> trigger, from |-> from, to |-> to, contextMatch |-> contextMatch]

\* dashRules with the triple-dash rule testing for the en dash again
dashRulesNoReset ==
    << InputRule(<<"-">>, <<"-", "-">>, Literal(<<enDashChar>>),
                 RegExp(FALSE, <<{"-"}>>)),
       InputRule(<<"-">>, <<enDashChar, "-">>, Literal(<<emDashChar>>),
                 RegExp(FALSE, <<{enDashChar}>>)),
       InputRule(<<"-">>, <<emDashChar, "-">>, Literal(<<"-", "-", "-">>),
                 RegExp(FALSE, <<{enDashChar}>>)) >>

dashRules ==
    << InputRule(<<"-">>, <<"-", "-">>, Literal(<<enDashChar>>),
                 RegExp(FALSE, <<{"-"}>>)),
       InputRule(<<"-">>, <<enDashChar, "-">>, Literal(<<emDashChar>>),
                 RegExp(FALSE, <<{enDashChar}>>)),
       InputRule(<<"-">>, <<emDashChar, "-">>, Literal(<<"-", "-", "-">>),
                 RegExp(FALSE, <<{emDashChar}>>)) >>

\* the en-dash-free set with the em dash made out of "--" as an en dash
dashRulesSansEnDashWithEnDash ==
    << InputRule(<<"-">>, <<"-", "-">>, Literal(<<enDashChar>>),
                 RegExp(FALSE, <<{"-"}>>)),
       InputRule(<<"-">>, <<emDashChar, "-">>, Literal(<<"-", "-", "-">>),
                 RegExp(FALSE, <<{emDashChar}>>)) >>

dashRulesSansEnDash ==
    << InputRule(<<"-">>, <<"-", "-">>, Literal(<<emDashChar>>),
                 RegExp(FALSE, <<{"-"}>>)),
       InputRule(<<"-">>, <<emDashChar, "-">>, Literal(<<"-", "-", "-">>),
                 RegExp(FALSE, <<{emDashChar}>>)) >>

\* the ellipsis rule with the ellipsis itself accepted as its context
ellipsisRulesAfterEllipsis ==
    << InputRule(<<".">>, <<".", ".", ".">>, Literal(<<ellipsisChar>>),
                 RegExp(FALSE, <<{".", ellipsisChar}>>)) >>

ellipsisRules ==
    << InputRule(<<".">>, <<".", ".", ".">>, Literal(<<ellipsisChar>>),
                 RegExp(FALSE, <<{"."}, {"."}>>)) >>

smartQuoteRules ==
    << InputRule(<<dquote>>, <<dquote>>, FromSettings(<<"openDouble">>),
                 RegExp(FALSE, <<OpenQuoteContext>>)),
       InputRule(<<dquote>>, <<dquote>>, FromSettings(<<"closeDouble">>),
                 RegExp(FALSE, <<>>)),
       InputRule(<<dquote, dquote>>, <<dquote, dquote>>,
                 FromSettings(<<"openDouble", "closeDouble">>),
                 RegExp(FALSE, <<>>)),
       InputRule(<<squote>>, <<squote>>, FromSettings(<<"openSingle">>),
                 RegExp(FALSE, <<OpenQuoteContext>>)),
       InputRule(<<squote>>, <<squote>>, FromSettings(<<"closeSingle">>),
                 RegExp(FALSE, <<>>)),
       InputRule(<<squote, squote>>, <<squote, squote>>,
                 FromSettings(<<"openSingle", "closeSingle">>),
                 RegExp(FALSE, <<>>)) >>

\* the arrow rules with the left arrow also accepted after a hyphen
arrowRulesAfterHyphen ==
    << InputRule(<<"-">>, <<"<", "-">>, FromSettings(<<"leftArrow">>),
                 RegExp(FALSE, <<{"<", "-"}>>)),
       InputRule(<<">">>, <<"-", ">">>, FromSettings(<<"rightArrow">>),
                 RegExp(FALSE, <<{"-"}>>)) >>

arrowRules ==
    << InputRule(<<"-">>, <<"<", "-">>, FromSettings(<<"leftArrow">>),
                 RegExp(FALSE, <<{"<"}>>)),
       InputRule(<<">">>, <<"-", ">">>, FromSettings(<<"rightArrow">>),
                 RegExp(FALSE, <<{"-"}>>)) >>

guillemetRules ==
    << InputRule(<<"<">>, <<"<", "<">>, FromSettings(<<"openGuillemet">>),
                 RegExp(FALSE, <<{"<"}>>)),
       InputRule(<<">">>, <<">", ">">>, FromSettings(<<"closeGuillemet">>),
                 RegExp(FALSE, <<{">"}>>)) >>

comparisonRules ==
    << InputRule(<<"=">>, <<">", "=">>, Literal(<<"U+2265">>),
                 RegExp(FALSE, <<{">"}>>)),
       InputRule(<<"=">>, <<"<", "=">>, Literal(<<"U+2264">>),
                 RegExp(FALSE, <<{"<"}>>)),
       InputRule(<<"=">>, <<"/", "=">>, Literal(<<"U+2260">>),
                 RegExp(FALSE, <<{"/"}>>)) >>

\* a fraction rule whose contextMatch accepts any numerator
FractionAnyNumerator(num, den, glyph) ==
    InputRule(<<den>>, <<num, "/", den>>, Literal(<<glyph>>),
              RegExp(TRUE, <<{"1", "2", "3", "4", "5", "6", "7", "8", "9"}, {"/"}>>))

\* One fraction rule: numerator / denominator, /(?:^|\s)<numerator>\/$/
Fraction(num, den, glyph) ==
    InputRule(<<den>>, <<num, "/", den>>, Literal(<<glyph>>),
              RegExp(TRUE, <<{num}, {"/"}>>))

fractionRules ==
    << Fraction("1", "2", "U+00BD"), Fraction("1", "3", "U+2153"),
       Fraction("2", "3", "U+2154"), Fraction("1", "4", "U+00BC"),
       Fraction("3", "4", "U+00BE"), Fraction("1", "5", "U+2155"),
       Fraction("2", "5", "U+2156"), Fraction("3", "5", "U+2157"),
       Fraction("4", "5", "U+2158"), Fraction("1", "6", "U+2159"),
       Fraction("5", "6", "U+215A"), Fraction("1", "7", "U+2150"),
       Fraction("1", "8", "U+215B"), Fraction("3", "8", "U+215C"),
       Fraction("5", "8", "U+215D"), Fraction("7", "8", "U+215E"),
       Fraction("1", "9", "U+2151"),
       InputRule(<<"0">>, <<"1", "/", "1", "0">>, Literal(<<"U+2152">>),
                 RegExp(TRUE, <<{"1"}, {"/"}, {"1"}>>)) >>

(***************************************************************************)
(* buildInputRules.  The rule lists hold rule objects and the active list  *)
(* holds references to them: a reference <<list, i>> is the i-th rule of   *)
(* the named list.                                                         *)
(***************************************************************************)
RuleLists ==
    [ dashRules |-> dashRules, dashRulesSansEnDash |-> dashRulesSansEnDash,
      ellipsisRules |-> ellipsisRules, smartQuoteRules |-> smartQuoteRules,
      arrowRules |-> arrowRules, guillemetRules |-> guillemetRules,
      comparisonRules |-> comparisonRules, fractionRules |-> fractionRules ]

Rule(ref) == RuleLists[ref[1]][ref[2]]

\* ...list: the references to the rules of a list, in its order
Spread(list) == [i \in 1..Len(RuleLists[list]) |-> <<list, i>>]

\* buildInputRules with the guillemet rules pushed whatever the setting
buildInputRulesWithGuillemets(s) ==
    (IF s.emDash
        THEN (IF s.skipEnDash THEN Spread("dashRulesSansEnDash")
              ELSE Spread("dashRules"))
        ELSE <<>>)
    \o (IF s.ellipsis THEN Spread("ellipsisRules") ELSE <<>>)
    \o (IF s.curlyQuotes THEN Spread("smartQuoteRules") ELSE <<>>)
    \o (IF s.arrows THEN Spread("arrowRules") ELSE <<>>)
    \o Spread("guillemetRules")
    \o (IF s.comparisons THEN Spread("comparisonRules") ELSE <<>>)
    \o (IF s.fractions THEN Spread("fractionRules") ELSE <<>>)

buildInputRules(s) ==
    (IF s.emDash
        THEN (IF s.skipEnDash THEN Spread("dashRulesSansEnDash")
              ELSE Spread("dashRules"))
        ELSE <<>>)
    \o (IF s.ellipsis THEN Spread("ellipsisRules") ELSE <<>>)
    \o (IF s.curlyQuotes THEN Spread("smartQuoteRules") ELSE <<>>)
    \o (IF s.arrows THEN Spread("arrowRules") ELSE <<>>)
    \o (IF s.guillemets THEN Spread("guillemetRules") ELSE <<>>)
    \o (IF s.comparisons THEN Spread("comparisonRules") ELSE <<>>)
    \o (IF s.fractions THEN Spread("fractionRules") ELSE <<>>)

\* this.inputRuleMap[insertedText]: the active rules with that trigger, in
\* catalog order (the empty sequence stands for undefined).
inputRuleMap(rules, insertedText) ==
    LET HasTrigger(ref) == Rule(ref).trigger = insertedText
    IN  SelectSeq(rules, HasTrigger)

(***************************************************************************)
(* Transactions.  A change is [from, to, insert] against the start         *)
(* document; the changes of one transaction are in document order.  A      *)
(* userEvent is the sequence of the dot-separated parts of the annotation  *)
(* (<<"input", "type">>), the empty sequence when there is none.           *)
(***************************************************************************)
Change(from, to, insert) == [from |-> from, to |-> to, insert |-> insert]

Range(anchor, head) == [anchor |-> anchor, head |-> head]

NoEffect == [store |-> FALSE]

NoRecord == [stored |-> FALSE]

\* storeTransaction.of(value)
StoreTransaction(value) == [store |-> TRUE, value |-> value]

\* tr.isUserEvent(event): the annotation is event or starts with "event."
isUserEvent(tr, event) ==
    /\ Len(event) <= Len(tr.userEvent)
    /\ SubSeq(tr.userEvent, 1, Len(event)) = event

docChanged(tr) == tr.changes # <<>>

\* Text.sliceString(from, to), both ends clipped to the text
sliceString(text, from, to) ==
    LET f == IF from < 0 THEN 0 ELSE from
        t == IF to > Len(text) THEN Len(text) ELSE to
    IN  SubSeq(text, f + 1, t)

RECURSIVE ApplyFrom(_, _, _)
\* the changes cs[1..k] applied to text, last change first, so that the
\* offsets of the earlier changes stay those of the start document
ApplyFrom(text, cs, k) ==
    IF k = 0 THEN text
    ELSE ApplyFrom(SubSeq(text, 1, cs[k].from) \o cs[k].insert
                       \o SubSeq(text, cs[k].to + 1, Len(text)),
                   cs, k - 1)

ApplyChanges(text, cs) == ApplyFrom(text, cs, Len(cs))

\* tr.newDoc
newDoc(tr, startDoc) == ApplyChanges(startDoc, tr.changes)

RECURSIVE OffsetB(_, _)
\* what the changes cs[1..k] add to the offsets behind them
OffsetB(cs, k) ==
    IF k = 0 THEN 0
    ELSE OffsetB(cs, k - 1) + Len(cs[k].insert) - (cs[k].to - cs[k].from)

\* fromB of iterChanges: the start of change i in the new document
fromB(cs, i) == cs[i].from + OffsetB(cs, i - 1)

(***************************************************************************)
(* Suppression.  nodeProps is the token class the syntax tree gives for a  *)
(* position, "" when the node has none.                                    *)
(***************************************************************************)
\* the ignore list without math
IgnoreListNoMath == {"frontmatter", "code", "templater", "hashtag"}

IgnoreList == {"frontmatter", "code", "math", "templater", "hashtag"}

\* the token classes the syntax tree may give for the node typed in
TokenClasses ==
    {"", "em", "frontmatter", "code", "math", "templater", "hashtag"}

ignoreListRegExTest(nodeProps) == nodeProps \in IgnoreList

canPerformReplacement(nodeProps) == ~ignoreListRegExTest(nodeProps)

(***************************************************************************)
(* The transaction filter, input branch.                                   *)
(***************************************************************************)
ContextWindow == 3

\* rule.to resolved against the settings
RECURSIVE ConcatFields(_, _, _)
ConcatFields(s, fields, k) ==
    IF k = 0 THEN <<>> ELSE ConcatFields(s, fields, k - 1) \o s[fields[k]]

\* rule.to resolved to the first setting it names only
InsertFirstOnly(rule, s) ==
    IF rule.to.fn THEN s[rule.to.value[1]] ELSE rule.to.value

Insert(rule, s) ==
    IF rule.to.fn THEN ConcatFields(s, rule.to.value, Len(rule.to.value))
    ELSE rule.to.value

RECURSIVE LastMatchFrom(_, _, _)
\* the last rule of matched[1..k] whose contextMatch passes, 0 when none does
LastMatchFrom(matched, context, k) ==
    IF k > Len(matched) THEN 0
    ELSE LET later == LastMatchFrom(matched, context, k + 1)
         IN  IF later # 0 THEN later
             ELSE IF RegExpTest(Rule(matched[k]).contextMatch, context) THEN k
             ELSE 0

RECURSIVE FirstMatchFrom(_, _, _)
\* the first rule of matched[k..] whose contextMatch passes, 0 when none does
FirstMatchFrom(matched, context, k) ==
    IF k > Len(matched) THEN 0
    ELSE IF RegExpTest(Rule(matched[k]).contextMatch, context) THEN k
    ELSE FirstMatchFrom(matched, context, k + 1)

\* the look-behind of an insertion at offset p of text
ContextAt(text, p) == sliceString(text, p - ContextWindow, p)

\* the k-th of the matched rules, as <<reference>>, <<>> for k = 0
Pick(matched, k) == IF k = 0 THEN <<>> ELSE <<matched[k]>>

\* the loop over matchedRules at one change
FiringAmong(matchedRules, context, props) ==
    IF matchedRules = <<>> THEN <<>>
    ELSE IF ~canPerformReplacement(props) THEN <<>>
    ELSE Pick(matchedRules, FirstMatchFrom(matchedRules, context, 1))

\* The body of the iterChanges callback for change i of tr: the rule that
\* fires there, as <<reference>>, or <<>> when the callback returns without a
\* change.  nodeProps[i] is the token class at the position of change i.
FiringRule(tr, startDoc, rules, nodeProps, i) ==
    FiringAmong(inputRuleMap(rules, tr.changes[i].insert),
                ContextAt(newDoc(tr, startDoc), fromB(tr.changes, i)),
                nodeProps[i])

\* the length of the whole `from`, the trigger not taken off
replacementLengthWhole(rule) == Len(rule.from)

replacementLength(rule) == Len(rule.from) - Len(rule.trigger)

\* the forward change over the one character before the trigger
ForwardChangeOneBack(tr, rule, s, i) ==
    Change(tr.changes[i].from - 1, tr.changes[i].from, Insert(rule, s))

\* the forward change registered for change i when rule fires
ForwardChange(tr, rule, s, i) ==
    LET insertionPoint == tr.changes[i].from - replacementLength(rule)
    IN  Change(insertionPoint, insertionPoint + replacementLength(rule),
               Insert(rule, s))

\* the revert over the range of the forward change instead of the glyph
RevertChangeForwardRange(tr, rule, s, i) ==
    LET reversionPoint == fromB(tr.changes, i) - replacementLength(rule)
    IN  Change(reversionPoint, reversionPoint + replacementLength(rule), rule.from)

\* the revert registered for change i when rule fires
RevertChange(tr, rule, s, i) ==
    LET reversionPoint == fromB(tr.changes, i) - replacementLength(rule)
    IN  Change(reversionPoint, reversionPoint + Len(Insert(rule, s)), rule.from)

\* the adjustment of a rule that always takes one character away
selectionAdjustmentByOne(rule, s) == 1

selectionAdjustment(rule, s) == Len(rule.from) - Len(Insert(rule, s))

\* every range of the selection moved back by the adjustment
AdjustSelection(selection, adjustment) ==
    [j \in 1..Len(selection) |->
        Range(selection[j].anchor - adjustment, selection[j].head - adjustment)]

\* registerChange and the selection adjustment for the rule firing at change i
Register(acc, rule, tr, s, i) ==
    [changes |-> Append(acc.changes, ForwardChange(tr, rule, s, i)),
     reverts |-> Append(acc.reverts, RevertChange(tr, rule, s, i)),
     newSelection |-> AdjustSelection(acc.newSelection,
                                      selectionAdjustment(rule, s))]

RegisterFired(acc, fired, tr, s, i) ==
    IF fired = <<>> THEN acc ELSE Register(acc, Rule(fired[1]), tr, s, i)

RECURSIVE IterChanges(_, _, _, _, _, _)
\* changes, reverts and newSelection after the callback ran on changes 1..i
IterChanges(tr, startDoc, rules, s, nodeProps, i) ==
    IF i = 0
    THEN [changes |-> <<>>, reverts |-> <<>>, newSelection |-> tr.selection]
    ELSE RegisterFired(IterChanges(tr, startDoc, rules, s, nodeProps, i - 1),
                       FiringRule(tr, startDoc, rules, nodeProps, i), tr, s, i)

\* the transaction spec constructed when there are changes
ConstructSpec(tr, r) ==
    IF r.changes # <<>>
    THEN [userEvent |-> <<>>, changes |-> r.changes,
          selection |-> r.newSelection,
          effects |-> StoreTransaction(
              [stored |-> TRUE, selection |-> tr.selection,
               changes |-> r.reverts])]
    ELSE tr

\* EditorState.transactionFilter: the transaction (spec) that replaces tr
transactionFilter(tr, startDoc, oldVal, rules, s, nodeProps) ==
    IF isUserEvent(tr, <<"delete", "backward">>)
          \/ isUserEvent(tr, <<"delete", "selection">>)
    THEN (IF oldVal.stored
            THEN [userEvent |-> <<>>, changes |-> oldVal.changes,
                  selection |-> oldVal.selection,
                  effects |-> StoreTransaction(NoRecord)]
            ELSE tr)
    ELSE IF ~isUserEvent(tr, <<"input", "type">>) \/ ~docChanged(tr) THEN tr
    ELSE ConstructSpec(tr, IterChanges(tr, startDoc, rules, s, nodeProps,
                                       Len(tr.changes)))

\* update that keeps a record it already holds when a new one is stored
updateKeepsOld(oldVal, tr) ==
    IF tr.effects.store /\ (~oldVal.stored \/ ~tr.effects.value.stored)
    THEN tr.effects.value
    ELSE IF \/ ~oldVal.stored
            \/ isUserEvent(tr, <<"input">>)
            \/ isUserEvent(tr, <<"delete", "forward">>)
            \/ isUserEvent(tr, <<"delete", "cut">>)
            \/ isUserEvent(tr, <<"move">>)
            \/ isUserEvent(tr, <<"select">>)
            \/ isUserEvent(tr, <<"undo">>)
         THEN NoRecord
    ELSE oldVal

\* update that takes a record from a store effect but not its clearing
updateIgnoresClear(oldVal, tr) ==
    IF tr.effects.store /\ tr.effects.value.stored THEN tr.effects.value
    ELSE IF \/ ~oldVal.stored
            \/ isUserEvent(tr, <<"input">>)
            \/ isUserEvent(tr, <<"delete", "forward">>)
            \/ isUserEvent(tr, <<"delete", "cut">>)
            \/ isUserEvent(tr, <<"move">>)
            \/ isUserEvent(tr, <<"select">>)
            \/ isUserEvent(tr, <<"undo">>)
         THEN NoRecord
    ELSE oldVal

\* prevTransactionState.update
update(oldVal, tr) ==
    IF tr.effects.store THEN tr.effects.value
    ELSE IF \/ ~oldVal.stored
            \/ isUserEvent(tr, <<"input">>)
            \/ isUserEvent(tr, <<"delete", "forward">>)
            \/ isUserEvent(tr, <<"delete", "cut">>)
            \/ isUserEvent(tr, <<"move">>)
            \/ isUserEvent(tr, <<"select">>)
            \/ isUserEvent(tr, <<"undo">>)
         THEN NoRecord
    ELSE oldVal

(***************************************************************************)
(* Dispatch: the editor resolves the filtered transaction against the      *)
(* start state.  A change outside the document or a selection outside the  *)
(* new document is a RangeError: the dispatch throws and the state stays.  *)
(***************************************************************************)
ChangesInRange(cs, text) ==
    \A i \in 1..Len(cs) : 0 <= cs[i].from /\ cs[i].from <= cs[i].to
                          /\ cs[i].to <= Len(text)

\* changes in document order that do not overlap (the only ones modelled)
Ordered(cs) == \A i \in 1..(Len(cs) - 1) : cs[i].to <= cs[i + 1].from

SelectionInRange(selection, text) ==
    \A j \in 1..Len(selection) :
        /\ 0 <= selection[j].anchor /\ selection[j].anchor <= Len(text)
        /\ 0 <= selection[j].head /\ selection[j].head <= Len(text)

RangeError(spec, startDoc) ==
    \/ ~ChangesInRange(spec.changes, startDoc)
    \/ ~SelectionInRange(spec.selection, ApplyChanges(startDoc, spec.changes))

NoSub == [newDoc |-> <<>>, selection |-> <<>>, cursor |-> <<>>]

InitEvent ==
    [ op |-> "init", tr |-> [userEvent |-> <<>>], nodeProps |-> <<>>,
      startDoc |-> <<>>, pending |-> FALSE, fired |-> <<>>,
      replaced |-> FALSE, error |-> FALSE, age |-> MaxAge, sub |-> NoSub,
      dashes |-> 0, dashStart |-> 0 ]

\* tr types one "-" at one cursor outside the ignored regions
TypesDash(op, tr, nodeProps) ==
    /\ op = "type"
    /\ Len(tr.changes) = 1
    /\ tr.changes[1].insert = <<dashChar>>
    /\ tr.changes[1].from = tr.changes[1].to
    /\ canPerformReplacement(nodeProps[1])

\* no active rule fires on a "-" typed at offset p
NoDashContext(p) ==
    FirstMatchFrom(inputRuleMap(inputRules, <<dashChar>>), ContextAt(doc, p), 1) = 0

\* the history of the run of "-" keystrokes typed in a row at one cursor, the
\* first of them in a context where no rule fires: their number, counted up
\* to MaxRun + 1, and the offset where the run began
DashRun(isDash, starts, p) ==
    IF ~isDash THEN [dashes |-> 0, dashStart |-> 0]
    ELSE IF last.dashes > MaxRun THEN [dashes |-> last.dashes, dashStart |-> last.dashStart]
    ELSE IF last.dashes > 0 THEN [dashes |-> last.dashes + 1, dashStart |-> last.dashStart]
    ELSE IF starts THEN [dashes |-> 1, dashStart |-> p]
    ELSE [dashes |-> 0, dashStart |-> 0]

\* the history record of one event: the transaction the editor built, the
\* state it started from and what the filter made of it (the transaction and
\* the start state are kept for typing and deleting only)
Event(op, tr, nodeProps, spec, kept, substituted, error, run) ==
    [ op |-> op,
      tr |-> IF kept THEN tr ELSE [userEvent |-> tr.userEvent],
      nodeProps |-> nodeProps,
      startDoc |-> IF kept THEN doc ELSE <<>>,
      pending |-> prevTransactionState.stored,
      fired |-> IF op = "type"
                  THEN [i \in 1..Len(tr.changes) |->
                          FiringRule(tr, doc, inputRules, nodeProps, i)]
                  ELSE <<>>,
      replaced |-> spec # tr,
      error |-> error,
      \* number of events since the last substitution (0: this one), capped
      age |-> IF substituted THEN 0
              ELSE IF last.age < MaxAge THEN last.age + 1 ELSE last.age,
      \* the typing transaction of the last substitution and the cursor it left
      sub |-> IF substituted
                THEN [newDoc |-> newDoc(tr, doc), selection |-> tr.selection,
                      cursor |-> spec.selection]
                ELSE IF last.age = 0 THEN last.sub ELSE NoSub,
      dashes |-> run.dashes,
      dashStart |-> run.dashStart ]

\* the state after the transaction spec, or the same state when it throws
Resolve(op, tr, nodeProps, spec, error) ==
    /\ ChangesInRange(spec.changes, doc) => Ordered(spec.changes)
    /\ last' = Event(op, tr, nodeProps, spec, op \in {"type", "delete"},
                     op = "type" /\ spec # tr /\ ~error, error,
                     DashRun(TypesDash(op, tr, nodeProps),
                             docChanged(tr) /\ NoDashContext(tr.changes[1].from),
                             IF docChanged(tr) THEN tr.changes[1].from ELSE 0))
    /\ IF error
       THEN UNCHANGED <<doc, sel, prevTransactionState>>
       ELSE /\ doc' = ApplyChanges(doc, spec.changes)
            /\ sel' = spec.selection
            /\ prevTransactionState' = update(prevTransactionState, spec)
    /\ UNCHANGED <<settings, inputRules>>

Filtered(op, tr, nodeProps, spec) ==
    Resolve(op, tr, nodeProps, spec, RangeError(spec, doc))

\* Some of the property names that the index, an object literal, inherits
\* from Object.prototype: this.inputRuleMap[insertedText] is then a function
\* of the prototype, not undefined and not a list of rules.
ObjectPrototype ==
    { <<"v", "a", "l", "u", "e", "O", "f">>,
      <<"t", "o", "S", "t", "r", "i", "n", "g">>,
      <<"c", "o", "n", "s", "t", "r", "u", "c", "t", "o", "r">> }

\* the iterChanges callback throws "matchedRules is not iterable": the
\* transaction is typed input and the text of one of its changes is an
\* inherited property name, which passes the test for undefined
TypeError(tr) ==
    /\ ~isUserEvent(tr, <<"delete", "backward">>)
    /\ ~isUserEvent(tr, <<"delete", "selection">>)
    /\ isUserEvent(tr, <<"input", "type">>)
    /\ docChanged(tr)
    /\ \E i \in 1..Len(tr.changes) : tr.changes[i].insert \in ObjectPrototype

FilterWith(op, tr, nodeProps, spec) ==
    Resolve(op, tr, nodeProps, spec, TypeError(tr) \/ RangeError(spec, doc))

Dispatch(op, tr, nodeProps) ==
    FilterWith(op, tr, nodeProps,
               transactionFilter(tr, doc, prevTransactionState, inputRules,
                                 settings, nodeProps))

Transaction(userEvent, changes, selection) ==
    [userEvent |-> userEvent, changes |-> changes, selection |-> selection,
     effects |-> NoEffect]

NoProps == <<>>

(***************************************************************************)
(* The events of the editor.                                               *)
(***************************************************************************)
\* the user types text: it replaces every range of the selection
InputType(text, nodeProps) ==
    LET changes == [i \in 1..Len(sel) |-> Change(sel[i].anchor, sel[i].head, text)]
        selection == [i \in 1..Len(sel) |->
                        Range(fromB(changes, i) + Len(text),
                              fromB(changes, i) + Len(text))]
    IN  Dispatch("type", Transaction(<<"input", "type">>, changes, selection),
                 nodeProps)

\* the changes that delete every range, a cursor deleting n characters
\* before (n > 0) or behind (n < 0) it
DeleteChanges(n) ==
    LET Del(r) == IF r.anchor # r.head THEN Change(r.anchor, r.head, <<>>)
                  ELSE IF n > 0
                  THEN Change(IF r.head - n < 0 THEN 0 ELSE r.head - n, r.head, <<>>)
                  ELSE Change(r.head, IF r.head - n > Len(doc) THEN Len(doc)
                                      ELSE r.head - n, <<>>)
        NonEmpty(c) == c.from # c.to
    IN  SelectSeq([i \in 1..Len(sel) |-> Del(sel[i])], NonEmpty)

RECURSIVE Merged(_)
\* a selection keeps one of several cursors on the same offset
Merged(ranges) ==
    IF Len(ranges) <= 1 THEN ranges
    ELSE LET rest == Merged(Tail(ranges))
         IN  IF ranges[1] = rest[1] THEN rest ELSE <<ranges[1]>> \o rest

CursorsAfter(changes) ==
    Merged([i \in 1..Len(changes) |->
               Range(fromB(changes, i), fromB(changes, i))])

AllCursors == \A i \in 1..Len(sel) : sel[i].anchor = sel[i].head

\* backspace (n = 1), delete word or delete to line start (n > 1)
DeleteBackward(n) ==
    LET changes == DeleteChanges(n)
        event == IF AllCursors THEN <<"delete", "backward">>
                 ELSE <<"delete", "selection">>
    IN  /\ changes # <<>>
        /\ Dispatch("delete", Transaction(event, changes, CursorsAfter(changes)),
                    NoProps)

DeleteForward ==
    LET changes == DeleteChanges(-1)
    IN  /\ AllCursors
        /\ changes # <<>>
        /\ Dispatch("delete", Transaction(<<"delete", "forward">>, changes,
                                          CursorsAfter(changes)), NoProps)

Cut ==
    LET changes == DeleteChanges(1)
    IN  /\ ~AllCursors
        /\ Dispatch("delete", Transaction(<<"delete", "cut">>, changes,
                                          CursorsAfter(changes)), NoProps)

\* the user moves the cursor or selects
Select(selection) ==
    /\ selection # sel
    /\ Dispatch("select", Transaction(<<"select">>, <<>>, selection), NoProps)

\* a transaction of the host that inserts text at offset p: a paste, an undo
\* or redo step, or a programmatic change without user-event annotation
HostEdit(userEvent, p, text) ==
    LET Shift(q) == IF q >= p THEN q + Len(text) ELSE q
        selection == [j \in 1..Len(sel) |->
                        Range(Shift(sel[j].anchor), Shift(sel[j].head))]
    IN  Dispatch("host", Transaction(userEvent, <<Change(p, p, text)>>, selection),
                 NoProps)

\* a programmatic selection change without user-event annotation
HostSelect(selection) ==
    /\ selection # sel
    /\ Dispatch("host", Transaction(<<>>, <<>>, selection), NoProps)

HostEvents == {<<"input", "paste">>, <<"undo">>, <<"redo">>, <<>>}

\* the selections over a text of length n: one cursor, one range, two cursors
Pairs(n) == {pq \in (0..n) \X (0..n) : pq[1] < pq[2]}

OneCursor(n) == {<<Range(p, p)>> : p \in 0..n}

OneRange(n) == {<<Range(pq[1], pq[2])>> : pq \in Pairs(n)}

TwoCursors(n) == {<<Range(pq[1], pq[1]), Range(pq[2], pq[2])>> : pq \in Pairs(n)}

(***************************************************************************)
(* The editor with the default settings: one cursor or one range, every    *)
(* kind of event.                                                          *)
(***************************************************************************)
InitWith(s) ==
    /\ doc = <<>>
    /\ sel = <<Range(0, 0)>>
    /\ prevTransactionState = NoRecord
    /\ settings = s
    /\ inputRules = buildInputRules(s)
    /\ last = InitEvent

Init == InitWith(DEFAULT_SETTINGS)

Keys == {<<"-">>, <<"a">>}

Bounded == Len(doc') <= MaxLen

Type == \E text \in Keys : InputType(text, <<"">>) /\ Bounded

Backspace == DeleteBackward(1)

DeleteWord == DeleteBackward(2)

Move == \E selection \in OneCursor(Len(doc)) : Select(selection)

Host == \E userEvent \in HostEvents :
            HostEdit(userEvent, 0, <<"a">>) /\ Bounded

HostMove == \E selection \in OneCursor(Len(doc)) \cup OneRange(Len(doc)) :
                HostSelect(selection)

Next ==
    \/ Type
    \/ Backspace
    \/ DeleteWord
    \/ DeleteForward
    \/ Cut
    \/ Move
    \/ Host
    \/ HostMove

Spec == Init /\ [][Next]_vars

\* the last event typed text at one cursor (an empty range) and a rule fired
SubstitutedAtCursor ==
    /\ last.op = "type"
    /\ last.age = 0
    /\ Len(last.tr.changes) = 1
    /\ last.tr.changes[1].from = last.tr.changes[1].to

\* C2 (as stated): the stored record is replayed only by the event that
\* immediately follows the substitution, and only when that event is a
\* backward delete of the single character that ends at the cursor the
\* substitution left; every other delete applies no inverse edit.
CE_C2_ReplayOnlyAtBoundary ==
    last.op = "delete" /\ last.replaced =>
        /\ last.age = 1
        /\ last.tr.userEvent = <<"delete", "backward">>
        /\ Len(last.tr.changes) = 1
        /\ last.tr.changes[1].to = last.tr.changes[1].from + 1
        /\ Len(last.sub.cursor) = 1
        /\ last.tr.changes[1].to = last.sub.cursor[1].head

\* C3 (as stated): after any event other than a substitution the state field
\* holds no record.
CE_C3_IdleAfterOtherEvent ==
    last.op # "init" /\ last.age > 0 /\ ~last.error
        => ~prevTransactionState.stored

\* C4: when a rule fires at a cursor while a record is pending, the record
\* is replaced by the inverse of this substitution alone: it is in range of
\* the buffer, and replaying it gives the buffer as it was before this
\* keystroke (the earlier glyph still in it) with the typed text inserted,
\* and the selection of the typing transaction.
Thm_C4_RecordIsLatest ==
    SubstitutedAtCursor /\ last.pending =>
        /\ prevTransactionState.stored
        /\ ChangesInRange(prevTransactionState.changes, doc)
        /\ ApplyChanges(doc, prevTransactionState.changes)
               = newDoc(last.tr, last.startDoc)
        /\ prevTransactionState.selection = last.tr.selection

\* the em dash was made of an en dash whose record was still pending
Wit_C4_RecordIsLatest ==
    /\ SubstitutedAtCursor
    /\ last.pending
    /\ ~last.error
    /\ last.startDoc[last.tr.changes[1].from] = enDashChar

(***************************************************************************)
(* Typing dashes: the default settings, one cursor, keys typed one after   *)
(* the other and backspace.                                                *)
(***************************************************************************)
DashSeeds == {<<>>, <<"a">>, <<" ">>}

InitDash ==
    /\ doc \in DashSeeds
    /\ sel \in OneCursor(Len(doc))
    /\ prevTransactionState = NoRecord
    /\ settings = DEFAULT_SETTINGS
    /\ inputRules = buildInputRules(DEFAULT_SETTINGS)
    /\ last = InitEvent

DashKeys == {<<dashChar>>, <<"a">>}

TypeDash ==
    \E text \in DashKeys :
        /\ last.dashes < MaxRun
        /\ InputType(text, <<"">>)
        /\ Len(doc') <= MaxDashLen

NextDash ==
    \/ TypeDash
    \/ Backspace

SpecDash == InitDash /\ [][NextDash]_vars

\* the text typed by the current run of dash keystrokes
RunText == SubSeq(doc, last.dashStart + 1, sel[1].head)

\* the event was a keystroke at one cursor (an empty range) outside the
\* ignored regions, and the dispatch did not throw
TypedAtCursor(text) ==
    /\ last.op = "type"
    /\ ~last.error
    /\ Len(last.tr.changes) = 1
    /\ last.tr.changes[1].insert = text
    /\ last.tr.changes[1].from = last.tr.changes[1].to
    /\ canPerformReplacement(last.nodeProps[1])

\* the start document with the character before offset p replaced by text
\* (the typed character itself not inserted)
PairBecomes(p, text) ==
    SubSeq(last.startDoc, 1, p - 1) \o text
        \o SubSeq(last.startDoc, p + 1, Len(last.startDoc))

\* C5 (as amended): with dashes enabled and en-dash skipping off, "-" typed
\* n times in a row at one cursor from a context where no rule fires gives
\* the en dash at n = 2, the em dash at n = 3, "---" at n = 4, and then the
\* chain starts again on the last "-": "--" + en dash at n = 5, "--" + em
\* dash at n = 6 and "-----" at n = 7.
Thm_C5_SevenDashes ==
    /\ last.dashes = 1 => RunText = <<"-">>
    /\ last.dashes = 2 => RunText = <<enDashChar>>
    /\ last.dashes = 3 => RunText = <<emDashChar>>
    /\ last.dashes = 4 => RunText = <<"-", "-", "-">>
    /\ last.dashes = 5 => RunText = <<"-", "-", enDashChar>>
    /\ last.dashes = 6 => RunText = <<"-", "-", emDashChar>>
    /\ last.dashes = 7 => RunText = <<"-", "-", "-", "-", "-">>

Wit_C5_SevenDashes == last.dashes = 7 /\ ~last.error

\* C5 (as stated): after the seventh "-" keystroke the run reads "---".
CE_C5_SevenDashesGiveThree == last.dashes = 7 => RunText = <<"-", "-", "-">>

\* C6: with dashes enabled and en-dash skipping off, a "-" typed at a cursor
\* right after "-" turns the pair into the en dash, right after the en dash
\* into the em dash, right after the em dash into "---"; so each keystroke
\* moves the chain on by one tier and none is skipped.
Thm_C6_DashTiers ==
    TypedAtCursor(<<dashChar>>) /\ last.tr.changes[1].from > 0 =>
        LET p == last.tr.changes[1].from
            c == last.startDoc[p]
        IN  /\ c = dashChar => doc = PairBecomes(p, <<enDashChar>>)
            /\ c = enDashChar => doc = PairBecomes(p, <<emDashChar>>)
            /\ c = emDashChar => doc = PairBecomes(p, <<"-", "-", "-">>)

\* the em dash has just been made out of an en dash that a rule produced
Wit_C6_DashTiers ==
    /\ TypedAtCursor(<<dashChar>>)
    /\ last.tr.changes[1].from > 0
    /\ last.startDoc[last.tr.changes[1].from] = enDashChar
    /\ last.dashes = 3

(***************************************************************************)
(* Every rule: all categories enabled, with either dash list.  The buffer  *)
(* starts as the text that precedes a trigger (the `from` of a rule        *)
(* without its trigger) after the start of the text, a letter, a space, a  *)
(* bracket or a line break, with the cursor behind it; then one key is     *)
(* typed, and backspace.                                                   *)
(***************************************************************************)
AllEnabled(skipEnDash) ==
    [DEFAULT_SETTINGS EXCEPT !.fractions = TRUE, !.guillemets = TRUE,
                             !.skipEnDash = skipEnDash]

ListNames == DOMAIN RuleLists

AllRules == UNION {{<<list, i>> : i \in 1..Len(RuleLists[list])} : list \in ListNames}

\* the text of rule.from before the trigger
Stem(rule) == SubSeq(rule.from, 1, replacementLength(rule))

Stems == {Stem(Rule(ref)) : ref \in AllRules}

Leads == {<<>>, <<"a">>, <<" ">>, <<"(">>, <<newline>>}

Trails == {<<>>, <<"a">>}

InitRules ==
    \E skipEnDash \in BOOLEAN, lead \in Leads, stem \in Stems, trail \in Trails :
        /\ doc = lead \o stem \o trail
        /\ sel = <<Range(Len(lead \o stem), Len(lead \o stem))>>
        /\ prevTransactionState = NoRecord
        /\ settings = AllEnabled(skipEnDash)
        /\ inputRules = buildInputRules(AllEnabled(skipEnDash))
        /\ last = InitEvent

RuleKeys == {Rule(ref).trigger : ref \in AllRules} \cup {<<"a">>}

TypeRuleKey ==
    \E text \in RuleKeys :
        /\ last.op = "init"
        /\ InputType(text, <<"">>)

NextRules ==
    \/ TypeRuleKey
    \/ Backspace

SpecRules == InitRules /\ [][NextRules]_vars

\* the last event is a backward delete that immediately follows a
\* substitution made at one cursor
BackspaceAfterSubstitution ==
    /\ last.op = "delete"
    /\ last.age = 1
    /\ last.tr.userEvent = <<"delete", "backward">>
    /\ Len(last.sub.selection) = 1

\* C1: when a rule fires on a trigger typed at one cursor and the very next
\* event is one backward delete, the buffer is the text before the keystroke
\* with the trigger typed into it (what the typing transaction would have
\* produced, so no character is deleted) and the selection is the selection
\* of that typing transaction.
Thm_C1_RoundTrip ==
    BackspaceAfterSubstitution =>
        /\ ~last.error
        /\ doc = last.sub.newDoc
        /\ sel = last.sub.selection

\* the round trip of the longest rule, 1/10
Wit_C1_RoundTrip ==
    /\ BackspaceAfterSubstitution
    /\ ~last.error
    /\ sel[1].head >= 4
    /\ SubSeq(doc, sel[1].head - 3, sel[1].head) = <<"1", "/", "1", "0">>

(***************************************************************************)
(* Quotes: the default settings, one cursor.                               *)
(***************************************************************************)
InitQuote == InitWith(DEFAULT_SETTINGS)

QuoteKeys == {<<dquote>>, <<squote>>, <<"a">>, <<" ">>, <<"(">>, <<newline>>}

TypeQuote ==
    \E text \in QuoteKeys : InputType(text, <<"">>) /\ Len(doc') <= MaxQuoteLen

NextQuote ==
    \/ TypeQuote
    \/ Move
    \/ Backspace

SpecQuote == InitQuote /\ [][NextQuote]_vars

OpeningBrackets == {"(", "[", "{", "<"}

\* the start document with text inserted at offset p
InsertedAt(p, text) ==
    SubSeq(last.startDoc, 1, p) \o text
        \o SubSeq(last.startDoc, p + 1, Len(last.startDoc))

\* a quote typed at a cursor becomes open when nothing precedes it or the
\* character before it is whitespace or an opening bracket, and close when
\* the character before it is a letter
QuoteBecomes(quote, open, close) ==
    TypedAtCursor(<<quote>>) =>
        LET p == last.tr.changes[1].from
        IN  /\ p = 0 => doc = InsertedAt(p, open)
            /\ p > 0 /\ last.startDoc[p] \in Whitespace \cup OpeningBrackets
                   => doc = InsertedAt(p, open)
            /\ p > 0 /\ last.startDoc[p] = "a" => doc = InsertedAt(p, close)

\* C7 (as stated): with curly quotes enabled, a typed " or ' becomes the
\* configured opening glyph at the start of the document, at the start of a
\* line, after whitespace and after an opening bracket, and the configured
\* closing glyph after a letter.
CE_C7_QuoteDisambiguation ==
    /\ QuoteBecomes(dquote, settings.openDouble, settings.closeDouble)
    /\ QuoteBecomes(squote, settings.openSingle, settings.closeSingle)

(***************************************************************************)
(* Suppression: the default settings, one or two cursors, the syntax tree  *)
(* giving any token class for the node typed in.                           *)
(***************************************************************************)
InitCode == InitWith(DEFAULT_SETTINGS)

CodeKeys == {<<dashChar>>, <<".">>}

TypeCode ==
    \E text \in CodeKeys, nodeProps \in TokenClasses :
        /\ InputType(text, [i \in 1..Len(sel) |-> nodeProps])
        /\ Len(doc') <= MaxCodeLen

MoveCursors ==
    \E selection \in OneCursor(Len(doc)) \cup TwoCursors(Len(doc)) :
        Select(selection)

NextCode ==
    \/ TypeCode
    \/ MoveCursors
    \/ Backspace

SpecCode == InitCode /\ [][NextCode]_vars

\* the last event typed text and every position typed at is classified as
\* code, math, front matter or template syntax
TypedInExcluded ==
    /\ last.op = "type"
    /\ \A i \in 1..Len(last.tr.changes) :
           last.nodeProps[i] \in {"code", "math", "frontmatter", "templater"}

\* C8: text typed at a position classified as code, math, front matter or
\* template syntax is inserted literally: the transaction passes unchanged
\* (the buffer and the selection are those of the typing transaction), and
\* no revert record is stored.
Thm_C8_Suppressed ==
    TypedInExcluded =>
        /\ ~last.replaced
        /\ ~last.error
        /\ doc = newDoc(last.tr, last.startDoc)
        /\ sel = last.tr.selection
        /\ ~prevTransactionState.stored

\* "-" typed right after "-" inside math: the en-dash rule would have fired
Wit_C8_Suppressed ==
    /\ TypedInExcluded
    /\ last.nodeProps[1] = "math"
    /\ FiringRule(last.tr, last.startDoc, inputRules,
                  [i \in 1..Len(last.tr.changes) |-> ""], 1) # <<>>
    /\ doc = last.startDoc \o <<dashChar>>

(***************************************************************************)
(* Several cursors: the default settings, one or two cursors.              *)
(***************************************************************************)
InitMulti == InitWith(DEFAULT_SETTINGS)

TypeMulti ==
    \E text \in Keys :
        /\ InputType(text, [i \in 1..Len(sel) |-> ""])
        /\ Len(doc') <= MaxMultiLen

NextMulti ==
    \/ TypeMulti
    \/ MoveCursors
    \/ Backspace

SpecMulti == InitMulti /\ [][NextMulti]_vars

\* the change that the keystroke should make at change i: the substitution
\* where a rule fired, the typed text where none did
WholeChange(i) ==
    IF last.fired[i] = <<>> THEN last.tr.changes[i]
    ELSE Change(last.tr.changes[i].from - replacementLength(Rule(last.fired[i][1])),
                last.tr.changes[i].to,
                Insert(Rule(last.fired[i][1]), settings))

SomeFired == \E i \in 1..Len(last.fired) : last.fired[i] # <<>>

\* C9 (as stated): when a keystroke at several cursors makes a rule fire at
\* one of them, the text typed at the cursors where no rule fires is still
\* inserted: the buffer is the start buffer with the substitution made where
\* a rule fired and the typed text inserted everywhere else.
CE_C9_AllOrNothing ==
    last.op = "type" /\ Len(last.tr.changes) > 1 /\ SomeFired =>
        /\ ~last.error
        /\ doc = ApplyChanges(last.startDoc,
                              [i \in 1..Len(last.tr.changes) |-> WholeChange(i)])

RECURSIVE DeltaBefore(_)
\* the sum of the length deltas of the substitutions at changes 1..i
DeltaBefore(i) ==
    IF i = 0 THEN 0
    ELSE DeltaBefore(i - 1)
         + (IF last.fired[i] = <<>> THEN 0
            ELSE selectionAdjustment(Rule(last.fired[i][1]), settings))

AllFired == \A i \in 1..Len(last.fired) : last.fired[i] # <<>>

\* C10 (as stated): when several substitutions fire in one keystroke, every
\* range is moved by the deltas of the substitutions before it and its own
\* only, so each cursor ends right behind its own glyph.
CE_C10_SelectionDeltas ==
    last.op = "type" /\ Len(last.tr.changes) > 1 /\ AllFired =>
        /\ ~last.error
        /\ sel = [i \in 1..Len(last.tr.selection) |->
                     Range(last.tr.selection[i].anchor - DeltaBefore(i),
                           last.tr.selection[i].head - DeltaBefore(i))]

\* C11 (as stated): when substitutions fire at several cursors in one
\* keystroke, every stored inverse edit is a range of the buffer after the
\* substitutions, and replaying the record turns each glyph back into the
\* literal text and leaves the rest of the buffer as it is: the result is
\* the buffer the typing transaction would have produced.
CE_C11_RevertRanges ==
    last.op = "type" /\ Len(last.tr.changes) > 1 /\ AllFired /\ ~last.error =>
        /\ prevTransactionState.stored
        /\ ChangesInRange(prevTransactionState.changes, doc)
        /\ Ordered(prevTransactionState.changes)
        /\ ApplyChanges(doc, prevTransactionState.changes)
               = newDoc(last.tr, last.startDoc)

(***************************************************************************)
(* Fractions, under SpecRules (fractions enabled).                         *)
(***************************************************************************)
\* a fraction rule fired at the one cursor of the last keystroke
FractionFired ==
    /\ last.op = "type"
    /\ ~last.error
    /\ Len(last.tr.changes) = 1
    /\ last.fired[1] # <<>>
    /\ last.fired[1][1][1] = "fractionRules"

\* the offset in the start document at which the fired rule's `from` begins
FromStart == last.tr.changes[1].from - replacementLength(Rule(last.fired[1][1]))

\* C12 (as stated): a fraction rule fires only when its numerator is at the
\* start of the text or of a line, or right after whitespace; after any other
\* character the final digit is typed literally.
CE_C12_FractionBoundary ==
    FractionFired => (FromStart = 0 \/ last.startDoc[FromStart] \in Whitespace)

(***************************************************************************)
(* Typing fractions: every category enabled, one cursor at the end of the  *)
(* text, on the first line or on the second line of the document; digits   *)
(* and "/" typed one after the other while the line is the beginning of a  *)
(* numerator/denominator text.                                             *)
(***************************************************************************)
FracDigits == {"0", "1", "2", "3", "4", "5", "6", "7", "8", "9"}

FracSeeds == {<<>>, <<newline>>}

InitFrac ==
    /\ doc \in FracSeeds
    /\ sel = <<Range(Len(doc), Len(doc))>>
    /\ prevTransactionState = NoRecord
    /\ settings = AllEnabled(FALSE)
    /\ inputRules = buildInputRules(AllEnabled(FALSE))
    /\ last = InitEvent

FracKeys == {<<c>> : c \in FracDigits \cup {"/"}}

\* the text of the line the cursor is on (the last line of the text)
LineOf(text) ==
    IF text # <<>> /\ text[1] = newline THEN Tail(text) ELSE text

\* the beginnings of a line that reads numerator/denominator
FracPrefixes ==
    {<<>>} \cup {<<n>> : n \in FracDigits} \cup {<<n, "/">> : n \in FracDigits}
        \cup {<<n, "/", "1">> : n \in FracDigits}

TypeFrac ==
    \E text \in FracKeys :
        /\ LineOf(doc) \in FracPrefixes
        /\ InputType(text, <<"">>)

NextFrac == TypeFrac

SpecFrac == InitFrac /\ [][NextFrac]_vars

\* the supported fractions and their glyphs
FractionGlyphs ==
    { << <<"1", "/", "2">>, "U+00BD" >>, << <<"1", "/", "3">>, "U+2153" >>,
      << <<"2", "/", "3">>, "U+2154" >>, << <<"1", "/", "4">>, "U+00BC" >>,
      << <<"3", "/", "4">>, "U+00BE" >>, << <<"1", "/", "5">>, "U+2155" >>,
      << <<"2", "/", "5">>, "U+2156" >>, << <<"3", "/", "5">>, "U+2157" >>,
      << <<"4", "/", "5">>, "U+2158" >>, << <<"1", "/", "6">>, "U+2159" >>,
      << <<"5", "/", "6">>, "U+215A" >>, << <<"1", "/", "7">>, "U+2150" >>,
      << <<"1", "/", "8">>, "U+215B" >>, << <<"3", "/", "8">>, "U+215C" >>,
      << <<"5", "/", "8">>, "U+215D" >>, << <<"7", "/", "8">>, "U+215E" >>,
      << <<"1", "/", "9">>, "U+2151" >>,
      << <<"1", "/", "1", "0">>, "U+2152" >> }

\* numerator/denominator texts: digit/digit and digit/10
PairTexts ==
    {<<n, "/", d>> : n \in FracDigits, d \in FracDigits}
        \cup {<<n, "/", "1", "0">> : n \in FracDigits}

\* what a line reading t becomes when its last character is typed
Converted(t) ==
    IF \E e \in FractionGlyphs : e[1] = t
    THEN <<(CHOOSE e \in FractionGlyphs : e[1] = t)[2]>>
    ELSE t

\* the last event typed a character at the one cursor, at the end of the
\* text, and the dispatch did not throw
TypedAtEnd ==
    /\ last.op = "type"
    /\ ~last.error
    /\ Len(last.tr.changes) = 1
    /\ last.tr.changes[1].from = Len(last.startDoc)
    /\ last.tr.changes[1].to = Len(last.startDoc)

\* the line as the typing transaction alone would have left it
TypedLine == LineOf(newDoc(last.tr, last.startDoc))

\* C13: with fractions enabled, when the last digit of a line reading
\* numerator/denominator is typed, the line becomes the glyph of that
\* fraction if the pair is one of the eighteen supported ones, and stays
\* literal for every other digit/digit and digit/10 pair.
Thm_C13_FractionSet ==
    TypedAtEnd /\ TypedLine \in PairTexts =>
        /\ LineOf(doc) = Converted(TypedLine)
        /\ Len(doc) = Len(last.startDoc) + 1 - (Len(TypedLine) - Len(Converted(TypedLine)))

\* 5/8 became its glyph, and 2/10 stayed literal
Wit_C13_FractionSet ==
    /\ TypedAtEnd
    /\ \/ TypedLine = <<"5", "/", "8">> /\ LineOf(doc) = <<"U+215D">>
       \/ TypedLine = <<"2", "/", "1", "0">> /\ LineOf(doc) = TypedLine

\* C14: with fractions enabled, "1", "/", "1", "0" typed at the start of a
\* line: the first three keystrokes are inserted as typed, and the "0"
\* replaces the three characters before it, together with itself, by the
\* glyph of one tenth, the cursor right after it; "1", "/", "2" gives the
\* glyph of one half on the "2".
Thm_C14_TenthAndHalf ==
    TypedAtEnd =>
        /\ TypedLine \in {<<"1">>, <<"1", "/">>, <<"1", "/", "1">>} =>
               /\ ~last.replaced
               /\ doc = newDoc(last.tr, last.startDoc)
               /\ sel = last.tr.selection
        /\ TypedLine = <<"1", "/", "1", "0">> =>
               /\ doc = SubSeq(last.startDoc, 1, Len(last.startDoc) - 3)
                            \o <<"U+2152">>
               /\ sel = <<Range(Len(doc), Len(doc))>>
        /\ TypedLine = <<"1", "/", "2">> =>
               /\ doc = SubSeq(last.startDoc, 1, Len(last.startDoc) - 2)
                            \o <<"U+00BD">>
               /\ sel = <<Range(Len(doc), Len(doc))>>

\* one tenth typed on the second line of the document
Wit_C14_TenthAndHalf ==
    /\ TypedAtEnd
    /\ TypedLine = <<"1", "/", "1", "0">>
    /\ doc = <<newline, "U+2152">>
    /\ sel = <<Range(2, 2)>>

(***************************************************************************)
(* Quotes with the default and with configured glyphs: one cursor, quotes  *)
(* typed one at a time or inserted as a pair by the editor's auto-pairing. *)
(***************************************************************************)
\* the quote characters set in the settings tab, one character each
ConfiguredQuotes ==
    [DEFAULT_SETTINGS EXCEPT !.openDouble = <<"U+00AB">>,
                             !.closeDouble = <<"U+00BB">>,
                             !.openSingle = <<"U+2039">>,
                             !.closeSingle = <<"U+203A">>]

QuoteSettings == {DEFAULT_SETTINGS, ConfiguredQuotes}

PairSeeds == {<<>>, <<"a">>, <<" ">>, <<"(">>, <<dquote>>}

InitPair ==
    \E s \in QuoteSettings :
        /\ doc \in PairSeeds
        /\ sel = <<Range(Len(doc), Len(doc))>>
        /\ prevTransactionState = NoRecord
        /\ settings = s
        /\ inputRules = buildInputRules(s)
        /\ last = InitEvent

\* the editor inserts the closing quote with the typed one, as one inserted
\* text, and leaves the cursor between the two
AutoPair(quote) ==
    LET p == sel[1].head
    IN  /\ Len(sel) = 1
        /\ AllCursors
        /\ Dispatch("type",
                    Transaction(<<"input", "type">>,
                                <<Change(p, p, <<quote, quote>>)>>,
                                <<Range(p + 1, p + 1)>>),
                    <<"">>)

TypePairQuote ==
    \E quote \in {dquote, squote} :
        /\ InputType(<<quote>>, <<"">>)
        /\ Len(doc') <= MaxPairLen

TypePair ==
    \E quote \in {dquote, squote} :
        /\ AutoPair(quote)
        /\ Len(doc') <= MaxPairLen

NextPair ==
    \/ TypePairQuote
    \/ TypePair

SpecPair == InitPair /\ [][NextPair]_vars

\* the last event inserted the doubled quote as one text at the one cursor
PairInserted(quote) ==
    /\ last.op = "type"
    /\ Len(last.tr.changes) = 1
    /\ last.tr.changes[1].insert = <<quote, quote>>
    /\ last.tr.changes[1].from = last.tr.changes[1].to

\* the doubled quote became open + close and the cursor is between them
PairBecame(quote, open, close) ==
    PairInserted(quote) =>
        LET p == last.tr.changes[1].from
        IN  /\ ~last.error
            /\ doc = InsertedAt(p, open \o close)
            /\ sel = <<Range(p + 1, p + 1)>>

\* C15: a doubled quote character inserted as one text at a cursor becomes
\* the configured opening glyph followed by the configured closing glyph,
\* whatever precedes it, and the cursor ends between the two glyphs.
Thm_C15_PairedQuotes ==
    /\ PairBecame(dquote, settings.openDouble, settings.closeDouble)
    /\ PairBecame(squote, settings.openSingle, settings.closeSingle)

\* a pair inserted right after a letter, with configured glyphs
Wit_C15_PairedQuotes ==
    /\ PairInserted(dquote)
    /\ last.tr.changes[1].from > 0
    /\ last.startDoc[last.tr.changes[1].from] = "a"
    /\ settings = ConfiguredQuotes
    /\ doc = <<"a", "U+00AB", "U+00BB">>

\* the opening quote glyphs: the straight quotes, the default curled openers
\* and the configured openers
OpeningQuotes ==
    {dquote, squote, "U+2018", "U+201C",
     settings.openDouble[1], settings.openSingle[1]}

\* a quote typed at a cursor right after an opening quote glyph becomes open
OpensAfterOpener(quote, open) ==
    /\ TypedAtCursor(<<quote>>)
    /\ last.tr.changes[1].from > 0
    /\ last.startDoc[last.tr.changes[1].from] \in OpeningQuotes
    => doc = InsertedAt(last.tr.changes[1].from, open)

\* C16 (as stated): a quote character typed right after an opening quote
\* glyph becomes the configured opener, whether that glyph is a straight
\* quote, a default curled opener or an opener configured in the settings.
CE_C16_OpenerAfterOpener ==
    /\ OpensAfterOpener(dquote, settings.openDouble)
    /\ OpensAfterOpener(squote, settings.openSingle)

(***************************************************************************)
(* Arrows, guillemets and comparisons, under SpecRules.                    *)
(***************************************************************************)
SymbolLists == {"arrowRules", "guillemetRules", "comparisonRules"}

\* the preceding character and the trigger of the symbol rules
ComplementaryPairs ==
    { <<"<", "-">>, <<"-", ">">>, <<"<", "<">>, <<">", ">">>,
      <<"<", "=">>, <<">", "=">>, <<"/", "=">> }

\* an arrow, guillemet or comparison rule fired at the one cursor
SymbolFired ==
    /\ last.op = "type"
    /\ ~last.error
    /\ Len(last.tr.changes) = 1
    /\ last.fired[1] # <<>>
    /\ last.fired[1][1][1] \in SymbolLists

\* C17: an arrow, guillemet or comparison rule fires only when the character
\* right before the typed trigger is the complementary symbol ("-" after
\* "<", ">" after "-", "<" after "<", ">" after ">", "=" after "<", ">" or
\* "/"); it replaces that character alone, and when no rule fires the
\* trigger is inserted as typed.
Thm_C17_ComplementarySymbol ==
    /\ SymbolFired =>
           LET p == last.tr.changes[1].from
           IN  /\ p > 0
               /\ <<last.startDoc[p], last.tr.changes[1].insert[1]>>
                      \in ComplementaryPairs
               /\ Rule(last.fired[1][1]).from
                      = <<last.startDoc[p]>> \o last.tr.changes[1].insert
               /\ FromStart = p - 1
    /\ last.op = "type" /\ ~last.error /\ Len(last.tr.changes) = 1
           /\ last.fired[1] = <<>>
        => doc = newDoc(last.tr, last.startDoc)

\* "/=" became the not-equal sign
Wit_C17_ComplementarySymbol ==
    /\ SymbolFired
    /\ last.fired[1][1][1] = "comparisonRules"
    /\ last.startDoc[last.tr.changes[1].from] = "/"
    /\ doc[last.tr.changes[1].from] = "U+2260"

(***************************************************************************)
(* The function-style comparison rules of src/inputRules.ts: a rule is a   *)
(* trigger, shouldReplace(context) and replace(params).  The three rules   *)
(* test the last character of the context and register one change and one *)
(* revert; a rule is written as that character, the inserted text and the  *)
(* revert text.  The filter calls them from the iterChanges callback with  *)
(* fromA, fromB and the look-behind.                                       *)
(***************************************************************************)
getLastChar(context) ==
    IF context = <<>> THEN <<>> ELSE <<context[Len(context)]>>

FunctionRule(trigger, lastChar, insert, revert) ==
    [trigger |-> trigger, lastChar |-> lastChar, insert |-> insert,
     revert |-> revert]

greaterThanOrEqualTo ==
    FunctionRule(<<"=">>, ">", <<"U+2264">>, <<">", "=">>)

lessThanOrEqualTo ==
    FunctionRule(<<"=">>, "<", <<"U+2265">>, <<"<", "=">>)

notEqualTo ==
    FunctionRule(<<"=">>, "/", <<"U+2260">>, <<"/", "=">>)

functionComparisonRules ==
    <<lessThanOrEqualTo, greaterThanOrEqualTo, notEqualTo>>

shouldReplace(rule, context) == getLastChar(context) = <<rule.lastChar>>

\* rule.replace: registerChange(change, revert) and adjustSelection(-1)
replace(acc, rule, fromA, fromB_) ==
    [changes |-> Append(acc.changes, Change(fromA - 1, fromA, rule.insert)),
     reverts |-> Append(acc.reverts, Change(fromB_ - 1, fromB_, rule.revert)),
     newSelection |-> AdjustSelection(acc.newSelection, 1)]

RECURSIVE FirstReplacing(_, _, _, _)
\* the first rule of rules[k..] with the inserted text as trigger whose
\* shouldReplace passes, 0 when there is none
FirstReplacing(rules, insertedText, context, k) ==
    IF k > Len(rules) THEN 0
    ELSE IF rules[k].trigger = insertedText /\ shouldReplace(rules[k], context)
    THEN k
    ELSE FirstReplacing(rules, insertedText, context, k + 1)

\* the loop over the rules at change i
ReplaceAt(acc, rules, k, props, fromA, fromB_) ==
    IF k = 0 \/ ~canPerformReplacement(props) THEN acc
    ELSE replace(acc, rules[k], fromA, fromB_)

RECURSIVE IterFunctionRules(_, _, _, _, _)
IterFunctionRules(tr, startDoc, rules, nodeProps, i) ==
    IF i = 0
    THEN [changes |-> <<>>, reverts |-> <<>>, newSelection |-> tr.selection]
    ELSE ReplaceAt(IterFunctionRules(tr, startDoc, rules, nodeProps, i - 1),
                   rules,
                   FirstReplacing(rules, tr.changes[i].insert,
                                  ContextAt(newDoc(tr, startDoc),
                                            fromB(tr.changes, i)), 1),
                   nodeProps[i], tr.changes[i].from, fromB(tr.changes, i))

\* the transaction filter over the function-style rules
functionTransactionFilter(tr, startDoc, oldVal, rules, nodeProps) ==
    IF isUserEvent(tr, <<"delete", "backward">>)
          \/ isUserEvent(tr, <<"delete", "selection">>)
    THEN (IF oldVal.stored
            THEN [userEvent |-> <<>>, changes |-> oldVal.changes,
                  selection |-> oldVal.selection,
                  effects |-> StoreTransaction(NoRecord)]
            ELSE tr)
    ELSE IF ~isUserEvent(tr, <<"input", "type">>) \/ ~docChanged(tr) THEN tr
    ELSE ConstructSpec(tr, IterFunctionRules(tr, startDoc, rules, nodeProps,
                                             Len(tr.changes)))

\* the editor with the function-style comparison rules only: one cursor at
\* the end of the text
FunctionSeeds == {<<>>, <<"a">>, <<"<">>, <<">">>, <<"/">>}

InitFunction ==
    /\ doc \in FunctionSeeds
    /\ sel = <<Range(Len(doc), Len(doc))>>
    /\ prevTransactionState = NoRecord
    /\ settings = DEFAULT_SETTINGS
    /\ inputRules = <<>>
    /\ last = InitEvent

FunctionKeys == {<<"=">>, <<"<">>, <<">">>, <<"/">>}

FunctionDispatch(op, tr, nodeProps) ==
    Filtered(op, tr, nodeProps,
             functionTransactionFilter(tr, doc, prevTransactionState,
                                       functionComparisonRules, nodeProps))

TypeFunction ==
    \E text \in FunctionKeys :
        /\ FunctionDispatch("type",
               Transaction(<<"input", "type">>,
                           <<Change(sel[1].anchor, sel[1].head, text)>>,
                           <<Range(sel[1].anchor + 1, sel[1].anchor + 1)>>),
               <<"">>)
        /\ Len(doc') <= MaxFunctionLen

BackspaceFunction ==
    LET changes == DeleteChanges(1)
    IN  /\ changes # <<>>
        /\ FunctionDispatch("delete",
               Transaction(<<"delete", "backward">>, changes,
                           CursorsAfter(changes)), NoProps)

NextFunction ==
    \/ TypeFunction
    \/ BackspaceFunction

SpecFunction == InitFunction /\ [][NextFunction]_vars

\* "=" typed at the cursor right after c turned the pair into glyph
ComparisonBecomes(c, glyph) ==
    /\ TypedAtCursor(<<"=">>)
    /\ last.tr.changes[1].from > 0
    /\ last.startDoc[last.tr.changes[1].from] = c
    => doc = PairBecomes(last.tr.changes[1].from, <<glyph>>)

\* C18 (as stated), for the function-style rules: "<=" becomes the
\* less-than-or-equal sign, ">=" the greater-than-or-equal sign and "/=" the
\* not-equal sign.
CE_C18_ComparisonGlyphs ==
    /\ ComparisonBecomes("<", "U+2264")
    /\ ComparisonBecomes(">", "U+2265")
    /\ ComparisonBecomes("/", "U+2260")

(***************************************************************************)
(* Stale records, under Spec.                                              *)
(***************************************************************************)
\* the text at the range of the inverse edit c is the glyph of an active
\* rule whose literal text c restores
GlyphAt(c, text) ==
    /\ 0 <= c.from /\ c.from <= c.to /\ c.to <= Len(text)
    /\ \E k \in 1..Len(inputRules) :
           /\ Rule(inputRules[k]).from = c.insert
           /\ Insert(Rule(inputRules[k]), settings) = SubSeq(text, c.from + 1, c.to)

\* every inverse edit of the stored record still has its glyph in place
GlyphsInPlace ==
    \A i \in 1..Len(prevTransactionState.changes) :
        GlyphAt(prevTransactionState.changes[i], doc)

\* C19 (as stated): when a delete arrives while a record is stored and the
\* text at the record's location is no longer the substituted glyph, the
\* delete is not replaced by the inverse edit.
CE_C19_NoStaleReplay ==
    [][prevTransactionState.stored /\ ~GlyphsInPlace
           => ~(last'.op = "delete" /\ last'.replaced)]_vars

(***************************************************************************)
(* Several editors.  The state field is part of each editor's state, so    *)
(* here doc, sel and prevTransactionState are functions of the attached    *)
(* editors; the settings and the rules belong to the plugin.  An editor    *)
(* that is closed is dropped with its state; when the plugin is unloaded   *)
(* the extension, and with it the field, is removed from every editor.     *)
(***************************************************************************)
Editors == {"A", "B"}

\* a function without the argument e
Without(f, e) == [x \in DOMAIN f \ {e} |-> f[x]]

\* a function with the value v at the (new) argument e
With(f, e, v) == [x \in DOMAIN f \cup {e} |-> IF x = e THEN v ELSE f[x]]

\* the value of the field in any editor that holds a record
anyStateField(e) ==
    IF \E x \in DOMAIN prevTransactionState : prevTransactionState[x].stored
    THEN prevTransactionState[CHOOSE x \in DOMAIN prevTransactionState :
                                 prevTransactionState[x].stored]
    ELSE NoRecord

\* tr.startState.field(prevTransactionState, false) in editor e
startStateField(e) ==
    IF e \in DOMAIN prevTransactionState THEN prevTransactionState[e]
    ELSE NoRecord

SessionEvent(op, e, replaced, error, substituted) ==
    [ op |-> op, editor |-> e, replaced |-> replaced, error |-> error,
      \* the field of e held a record when the event arrived
      pending |-> startStateField(e).stored,
      \* the event before this one in e was a substitution in e
      follows |-> e \in last.fresh,
      \* the editors whose latest event was a substitution made in them
      fresh |-> IF substituted THEN last.fresh \cup {e} ELSE last.fresh \ {e},
      loaded |-> op # "unload" /\ last.loaded ]

InitSessions ==
    /\ doc = [e \in {"A"} |-> <<>>]
    /\ sel = [e \in {"A"} |-> <<Range(0, 0)>>]
    /\ prevTransactionState = [e \in {"A"} |-> NoRecord]
    /\ settings = DEFAULT_SETTINGS
    /\ inputRules = buildInputRules(DEFAULT_SETTINGS)
    /\ last = [ op |-> "init", editor |-> "A", replaced |-> FALSE,
                error |-> FALSE, pending |-> FALSE, follows |-> FALSE,
                fresh |-> {}, loaded |-> TRUE ]

\* the editor e resolves the filtered transaction against its own state
ResolveIn(e, op, tr, spec, error) ==
    /\ ChangesInRange(spec.changes, doc[e]) => Ordered(spec.changes)
    /\ last' = SessionEvent(op, e, spec # tr, error,
                            op = "type" /\ spec # tr /\ ~error)
    /\ IF error
       THEN UNCHANGED <<doc, sel, prevTransactionState>>
       ELSE /\ doc' = [doc EXCEPT ![e] = ApplyChanges(doc[e], spec.changes)]
            /\ sel' = [sel EXCEPT ![e] = spec.selection]
            /\ prevTransactionState' =
                   [prevTransactionState EXCEPT
                       ![e] = update(prevTransactionState[e], spec)]
    /\ UNCHANGED <<settings, inputRules>>

DispatchWith(e, op, tr, spec) ==
    ResolveIn(e, op, tr, spec, RangeError(spec, doc[e]))

\* a transaction of editor e while the plugin is loaded
DispatchIn(e, op, tr, nodeProps) ==
    /\ last.loaded
    /\ e \in DOMAIN doc
    /\ DispatchWith(e, op, tr,
                    transactionFilter(tr, doc[e], startStateField(e),
                                      inputRules, settings, nodeProps))

TypeIn(e, text) ==
    LET p == sel[e][1].head
    IN  /\ e \in DOMAIN doc
        /\ DispatchIn(e, "type",
                      Transaction(<<"input", "type">>, <<Change(p, p, text)>>,
                                  <<Range(p + Len(text), p + Len(text))>>),
                      <<"">>)

BackspaceIn(e) ==
    LET p == sel[e][1].head
    IN  /\ e \in DOMAIN doc
        /\ p > 0
        /\ DispatchIn(e, "delete",
                      Transaction(<<"delete", "backward">>,
                                  <<Change(p - 1, p, <<>>)>>,
                                  <<Range(p - 1, p - 1)>>),
                      NoProps)

\* a new editor is opened: a fresh state, the field created empty
Attach(e) ==
    /\ last.loaded
    /\ e \notin DOMAIN doc
    /\ doc' = With(doc, e, <<>>)
    /\ sel' = With(sel, e, <<Range(0, 0)>>)
    /\ prevTransactionState' = With(prevTransactionState, e, NoRecord)
    /\ last' = SessionEvent("attach", e, FALSE, FALSE, FALSE)
    /\ UNCHANGED <<settings, inputRules>>

\* the editor is closed: its state is dropped
Detach(e) ==
    /\ e \in DOMAIN doc
    /\ doc' = Without(doc, e)
    /\ sel' = Without(sel, e)
    /\ prevTransactionState' = Without(prevTransactionState, e)
    /\ last' = SessionEvent("detach", e, FALSE, FALSE, FALSE)
    /\ UNCHANGED <<settings, inputRules>>

\* the plugin is unloaded: the extension is removed from every editor
Unload ==
    /\ last.loaded
    /\ prevTransactionState' = [e \in {} |-> NoRecord]
    /\ last' = [SessionEvent("unload", last.editor, FALSE, FALSE, FALSE)
                   EXCEPT !.fresh = {}]
    /\ UNCHANGED <<doc, sel, settings, inputRules>>

TypeSession ==
    \E e \in Editors, text \in Keys :
        /\ TypeIn(e, text)
        /\ Len(doc'[e]) <= MaxSessionLen

BackspaceSession == \E e \in Editors : BackspaceIn(e)

AttachSession == \E e \in Editors : Attach(e)

DetachSession == \E e \in Editors : Detach(e)

NextSessions ==
    \/ TypeSession
    \/ BackspaceSession
    \/ AttachSession
    \/ DetachSession
    \/ Unload

SpecSessions == InitSessions /\ [][NextSessions]_vars

rebuiltRulesOnto(old, s) == old \o buildInputRules(s)

\* this.inputRules after buildInputRules: emptied, then filled from s
rebuiltRules(old, s) ==
    LET emptied == <<>>
    IN  emptied \o buildInputRules(s)

\* saveSettings after the settings became s
saveSettings(s) ==
    /\ settings' = s
    /\ inputRules' = rebuiltRules(inputRules, s)

\* the settings entry did not change anything
Rejected == UNCHANGED <<settings, inputRules>>

\* onChange of a quote or arrow character
onChangeCharacter(field, value) ==
    IF value = <<>> THEN Rejected
    ELSE IF Len(value) > 1 THEN Rejected
    ELSE saveSettings([settings EXCEPT ![field] = value])

\* onChange of a guillemet character
onChangeGuillemet(field, value) ==
    IF value = <<>> THEN Rejected
    ELSE saveSettings([settings EXCEPT ![field] = value])

CharacterFields ==
    {"openDouble", "closeDouble", "openSingle", "closeSingle",
     "leftArrow", "rightArrow"}

GuillemetFields == {"openGuillemet", "closeGuillemet"}

\* what the user may leave in a text box: nothing, one or two characters
TextValues == {<<>>, <<"x">>, <<"x", "y">>}

SettingEvent(op, field, value) ==
    [op |-> op, field |-> field, value |-> value, before |-> settings[field]]

InitGlyphs ==
    /\ doc = <<>>
    /\ sel = <<Range(0, 0)>>
    /\ prevTransactionState = NoRecord
    /\ settings = DEFAULT_SETTINGS
    /\ inputRules = buildInputRules(DEFAULT_SETTINGS)
    /\ last = [op |-> "init", field |-> "", value |-> <<>>, before |-> <<>>]

SetCharacter ==
    \E field \in CharacterFields, value \in TextValues :
        /\ onChangeCharacter(field, value)
        /\ last' = SettingEvent("set", field, value)
        /\ UNCHANGED <<doc, sel, prevTransactionState>>

SetGuillemet ==
    \E field \in GuillemetFields, value \in TextValues :
        /\ onChangeGuillemet(field, value)
        /\ last' = SettingEvent("set", field, value)
        /\ UNCHANGED <<doc, sel, prevTransactionState>>

NextGlyphs ==
    \/ SetCharacter
    \/ SetGuillemet

SpecGlyphs == InitGlyphs /\ [][NextGlyphs]_vars

\* C21 (as stated): after any sequence of updates of the glyph settings
\* every stored glyph is exactly one character, an update with an empty or
\* longer value having left the setting as it was.
CE_C21_OneCharacterGlyphs ==
    /\ \A field \in CharacterFields \cup GuillemetFields :
           Len(settings[field]) = 1
    /\ last.op = "set" /\ Len(last.value) # 1
           => settings[last.field] = last.before

(***************************************************************************)
(* The category toggles, with typing in between.                           *)
(***************************************************************************)
ToggleFields ==
    {"curlyQuotes", "emDash", "skipEnDash", "ellipsis", "guillemets",
     "arrows", "comparisons", "fractions"}

\* onChange of a toggle
onChangeToggle(field, value) ==
    saveSettings([settings EXCEPT ![field] = value])

SettingsSaved == [InitEvent EXCEPT !.op = "settings"]

InitSettings == InitWith(DEFAULT_SETTINGS)

Toggle ==
    \E field \in ToggleFields :
        /\ onChangeToggle(field, ~settings[field])
        /\ last' = SettingsSaved
        /\ UNCHANGED <<doc, sel, prevTransactionState>>

SetArrow ==
    \E value \in TextValues :
        /\ onChangeCharacter("rightArrow", value)
        /\ last' = SettingsSaved
        /\ UNCHANGED <<doc, sel, prevTransactionState>>

TypeSetting ==
    /\ InputType(<<dashChar>>, <<"">>)
    /\ Len(doc') <= MaxSettingsLen

NextSettings ==
    \/ Toggle
    \/ SetArrow
    \/ TypeSetting

SpecSettings == InitSettings /\ [][NextSettings]_vars

\* the categories in catalog order, and the list each one contributes
CategoryOrder ==
    <<"emDash", "ellipsis", "curlyQuotes", "arrows", "guillemets",
      "comparisons", "fractions">>

CategoryOf(list) ==
    [ dashRules |-> 1, dashRulesSansEnDash |-> 1, ellipsisRules |-> 2,
      smartQuoteRules |-> 3, arrowRules |-> 4, guillemetRules |-> 5,
      comparisonRules |-> 6, fractionRules |-> 7 ][list]

\* the rule belongs to an enabled category (and to the selected dash set)
Enabled(ref) ==
    /\ settings[CategoryOrder[CategoryOf(ref[1])]]
    /\ ref[1] = "dashRules" => ~settings.skipEnDash
    /\ ref[1] = "dashRulesSansEnDash" => settings.skipEnDash

Before(a, b) ==
    \/ CategoryOf(a[1]) < CategoryOf(b[1])
    \/ CategoryOf(a[1]) = CategoryOf(b[1]) /\ a[2] < b[2]

InOrder(rules) ==
    \A i, j \in 1..Len(rules) : i < j => Before(rules[i], rules[j])

Members(rules) == {rules[i] : i \in 1..Len(rules)}

IndexedTexts == {Rule(ref).trigger : ref \in AllRules} \cup {<<"a">>}

\* C22: after startup and after every change made in the settings tab the
\* active rule list holds exactly the rules of the enabled categories, each
\* once, in the order dashes, ellipsis, quotes, arrows, guillemets,
\* comparisons, fractions and in catalog order inside a category; and the
\* trigger index maps every text to exactly the active rules with that
\* trigger, in the same order.
Thm_C22_ActiveRules ==
    /\ Members(inputRules) = {ref \in AllRules : Enabled(ref)}
    /\ InOrder(inputRules)
    /\ \A text \in IndexedTexts :
           LET indexed == inputRuleMap(inputRules, text)
           IN  /\ Members(indexed) =
                     {ref \in Members(inputRules) : Rule(ref).trigger = text}
               /\ InOrder(indexed)

\* guillemets were switched on and arrows off in the settings tab
Wit_C22_ActiveRules ==
    /\ last.op = "settings"
    /\ settings.guillemets
    /\ ~settings.arrows
    /\ settings.skipEnDash
    /\ <<"guillemetRules", 1>> \in Members(inputRules)

\* C23: rebuilding with unchanged settings gives the same rule list (and so
\* the same index), with no rule added twice; and a rebuild changes nothing
\* but the rule list: the buffer, the selection and a pending revert record
\* stay as they were, and the settings are those that were saved.
Thm_C23_RebuildIdempotent ==
    [][last'.op = "settings" =>
          /\ settings' = settings => inputRules' = inputRules
          /\ prevTransactionState' = prevTransactionState
          /\ doc' = doc /\ sel' = sel
          /\ InOrder(inputRules')]_vars

\* the same arrow character was entered again while a record was pending
Wit_C23_RebuildIdempotent ==
    /\ last.op = "settings"
    /\ prevTransactionState.stored
    /\ settings.rightArrow = <<"x">>
    /\ inputRules # <<>>

(***************************************************************************)
(* The order of evaluation, under SpecRules.                               *)
(***************************************************************************)
\* the last event typed a key at one cursor
TypedOnce == last.op = "type" /\ Len(last.tr.changes) = 1

TypedAt == last.tr.changes[1].from

\* the active rules with the typed trigger, in the order of the list
Candidates ==
    SelectSeq(inputRules,
              LAMBDA ref : Rule(ref).trigger = last.tr.changes[1].insert)

\* the positions of the candidates whose context test passes on the three
\* characters before the key
Passing ==
    {k \in 1..Len(Candidates) :
        RegExpTest(Rule(Candidates[k]).contextMatch,
                   sliceString(last.startDoc, TypedAt - 3, TypedAt))}

FirstPassing == Rule(Candidates[CHOOSE k \in Passing : \A j \in Passing : k <= j])

\* the buffer before the key with the text before the cursor that the rule
\* stands for replaced by the rule's glyph
SubstitutedBy(rule) ==
    SubSeq(last.startDoc, 1, TypedAt - (Len(rule.from) - Len(rule.trigger)))
        \o Insert(rule, settings)
        \o SubSeq(last.startDoc, TypedAt + 1, Len(last.startDoc))

\* C24: for a key typed at one cursor the rules with that trigger are tried
\* in the order of the active list and the first whose context test passes
\* is the only one applied: the buffer is the old one with that rule's
\* single substitution made and one revert is recorded; when no test
\* passes the key is inserted as typed and nothing is recorded.
Thm_C24_FirstMatchOnly ==
    TypedOnce =>
        IF Passing = {}
        THEN /\ ~last.replaced
             /\ doc = newDoc(last.tr, last.startDoc)
             /\ ~prevTransactionState.stored
        ELSE /\ last.replaced
             /\ doc = SubstitutedBy(FirstPassing)
             /\ prevTransactionState.stored
             /\ Len(prevTransactionState.changes) = 1

\* two rules passed and the first one was applied
Wit_C24_FirstMatchOnly ==
    /\ TypedOnce
    /\ Cardinality(Passing) > 1
    /\ doc = SubstitutedBy(FirstPassing)

(***************************************************************************)
(* One key typed behind a look-behind context, under every combination of  *)
(* the category toggles.                                                   *)
(***************************************************************************)
\* the settings loaded from a data file that holds the toggles `on`
LoadedSettings(on) ==
    [field \in DOMAIN DEFAULT_SETTINGS |->
        IF field \in ToggleFields THEN field \in on
        ELSE DEFAULT_SETTINGS[field]]

ContextChars ==
    {"-", enDashChar, emDashChar, "<", ">", "/", ".", "1", "2", "a", " "}

ContextLeads == {<<>>, <<" ">>, <<"a">>}

ContextTails == {<<>>} \cup {<<c>> : c \in ContextChars}

InitContext ==
    \E on \in SUBSET ToggleFields, lead \in ContextLeads,
       mid \in ContextTails, tail \in ContextTails :
        /\ doc = lead \o mid \o tail
        /\ sel = <<Range(Len(doc), Len(doc))>>
        /\ prevTransactionState = NoRecord
        /\ settings = LoadedSettings(on)
        /\ inputRules = buildInputRules(LoadedSettings(on))
        /\ last = InitEvent

ContextKeys == {<<"-">>, <<">">>, <<"=">>, <<"3">>, <<dquote>>}

TypeContextKey ==
    \E text \in ContextKeys :
        /\ last.op = "init"
        /\ InputType(text, <<"">>)

NextContext == TypeContextKey

SpecContext == InitContext /\ [][NextContext]_vars

QuoteRule(ref) == ref[1] = "smartQuoteRules"

\* C25: whatever categories are enabled, with either dash set, and whatever
\* the three characters before the key, at most one of the active rules with
\* the typed trigger that are not quote rules passes its context test; when
\* two rules pass they are the opening and the closing rule of the typed
\* double quote, the opening one first.
Thm_C25_ExclusiveContexts ==
    TypedOnce =>
        /\ Cardinality({k \in Passing : ~QuoteRule(Candidates[k])}) <= 1
        /\ \A j, k \in Passing :
               j < k =>
                   /\ QuoteRule(Candidates[j]) /\ QuoteRule(Candidates[k])
                   /\ Rule(Candidates[j]).to.value = <<"openDouble">>
                   /\ Rule(Candidates[k]).to.value = <<"closeDouble">>

\* `>` typed after a hyphen with arrows and guillemets on: two rules share
\* the trigger and only the arrow rule passes
Wit_C25_ExclusiveContexts ==
    /\ TypedOnce
    /\ last.tr.changes[1].insert = <<">">>
    /\ Len(Candidates) = 2
    /\ Cardinality(Passing) = 1
    /\ doc[Len(doc)] = settings.rightArrow[1]

(***************************************************************************)
(* Events that no rule applies to: typed text that is no trigger, pasted   *)
(* and programmatic edits, selection changes.                              *)
(***************************************************************************)
PassTexts == {<<"a">>, <<"-">>, <<"a", "b">>} \cup ObjectPrototype

TypeText ==
    \E text \in PassTexts :
        /\ InputType(text, <<"">>)
        /\ Len(doc') <= MaxPassLen

HostAppend ==
    \E userEvent \in HostEvents :
        /\ HostEdit(userEvent, Len(doc), <<"-">>)
        /\ Len(doc') <= MaxPassLen

NextPass ==
    \/ TypeText
    \/ HostAppend
    \/ Move

SpecPass == Init /\ [][NextPass]_vars

\* no active rule has the text of a change of the typing transaction as
\* its trigger
NoTrigger ==
    \A i \in 1..Len(last.tr.changes) :
        \A k \in 1..Len(inputRules) :
            Rule(inputRules[k]).trigger # last.tr.changes[i].insert

\* C26 (as stated, for the events that are not deletes): a pasted or
\* programmatic edit, a selection change and a typing transaction none of
\* whose inserted texts is a trigger of an active rule go through as they
\* are, without an error and without storing a revert record; the typed
\* text is in the buffer and the selection is the one of the transaction.
CE_C26_PassThrough ==
    /\ last.op \in {"host", "select"} =>
           /\ ~last.replaced
           /\ ~last.error
           /\ prevTransactionState.stored => last.pending
    /\ last.op = "type" /\ NoTrigger =>
           /\ ~last.replaced
           /\ ~last.error
           /\ ~prevTransactionState.stored
           /\ doc = newDoc(last.tr, last.startDoc)
           /\ sel = last.tr.selection

(***************************************************************************)
(* The dash chain with the en dash skipped.                                *)
(***************************************************************************)
SkipEnDash == [DEFAULT_SETTINGS EXCEPT !.skipEnDash = TRUE]

InitSkip ==
    /\ doc \in DashSeeds
    /\ sel \in OneCursor(Len(doc))
    /\ prevTransactionState = NoRecord
    /\ settings = SkipEnDash
    /\ inputRules = buildInputRules(SkipEnDash)
    /\ last = InitEvent

TypeSkip ==
    \E text \in DashKeys :
        /\ InputType(text, <<"">>)
        /\ Len(doc') <= MaxSkipLen

NextSkip ==
    \/ TypeSkip
    \/ Backspace

SpecSkip == InitSkip /\ [][NextSkip]_vars

\* the cursor that the typing transaction of the last substitution asked for
SubstitutionCursor == last.sub.selection[1].head

Outputs == {Insert(Rule(ref), DEFAULT_SETTINGS) : ref \in AllRules}

InitOutput ==
    \E skipEnDash \in BOOLEAN, lead \in Leads, output \in Outputs :
        /\ doc = lead \o output
        /\ sel = <<Range(Len(doc), Len(doc))>>
        /\ prevTransactionState = NoRecord
        /\ settings = AllEnabled(skipEnDash)
        /\ inputRules = buildInputRules(AllEnabled(skipEnDash))
        /\ last = InitEvent

TypeOutputKey ==
    \E text \in RuleKeys :
        /\ last.op = "init"
        /\ InputType(text, <<"">>)

NextOutput == TypeOutputKey

SpecOutput == InitOutput /\ [][NextOutput]_vars

\* the text before the key ends, at the cursor, with what the rule inserts
BehindOutputOf(rule) ==
    LET output == Insert(rule, settings)
    IN  /\ Len(output) <= TypedAt
        /\ SubSeq(last.startDoc, TypedAt - Len(output) + 1, TypedAt) = output

\* the single characters that the rules other than the quote rules insert
Glyphs ==
    {Insert(Rule(ref), settings)[1] :
        ref \in {r \in AllRules : ~QuoteRule(r) /\ Len(Insert(Rule(r), settings)) = 1}}

DashLists == {"dashRules", "dashRulesSansEnDash"}

\* C28: with the default characters, a trigger typed at one cursor right
\* behind the output of an active rule with that trigger (the quote rules,
\* which stand for the typed quote alone, left aside) does not fire that
\* rule; and when a rule other than a quote rule fires right behind a glyph
\* it is a dash rule that takes the en dash to the em dash or the em dash
\* to "---".
Thm_C28_NoRefireOnGlyph ==
    TypedOnce =>
        /\ \A k \in 1..Len(Candidates) :
               ~QuoteRule(Candidates[k]) /\ BehindOutputOf(Rule(Candidates[k]))
                   => last.fired[1] # <<Candidates[k]>>
        /\ /\ last.fired[1] # <<>>
           /\ ~QuoteRule(last.fired[1][1])
           /\ last.startDoc[TypedAt] \in Glyphs
           => /\ last.fired[1][1][1] \in DashLists
              /\ last.startDoc[TypedAt] \in {enDashChar, emDashChar}
              /\ Insert(Rule(last.fired[1][1]), settings) # <<last.startDoc[TypedAt]>>

\* "=" typed behind the not-equal sign stayed a plain "="
Wit_C28_NoRefireOnGlyph ==
    /\ TypedOnce
    /\ last.tr.changes[1].insert = <<"=">>
    /\ last.startDoc[TypedAt] = "U+2260"
    /\ last.fired[1] = <<>>
    /\ doc[Len(doc)] = "="

(***************************************************************************)
(* The replay consumes the record, under Spec.                             *)
(***************************************************************************)
\* the last event was a delete that the filter replaced by the stored
\* inverse, and the inverse was applied
Replayed == last.op = "delete" /\ last.replaced /\ ~last.error

\* C29: the transaction that applies a stored inverse leaves no record, so
\* a delete that comes right after it is not replaced: it deletes what it
\* asked to delete and the inverse is not applied a second time.
Thm_C29_ReplayConsumesRecord ==
    [][/\ Replayed' => ~prevTransactionState'.stored
       /\ Replayed /\ last'.op = "delete" =>
              /\ ~last'.replaced
              /\ ~last'.error
              /\ doc' = ApplyChanges(doc, last'.tr.changes)]_vars

\* "--" became the en dash, a backspace put "--" back and a second backspace
\* deleted one "-"
Wit_C29_ReplayConsumesRecord ==
    /\ last.op = "delete"
    /\ last.tr.userEvent = <<"delete", "backward">>
    /\ ~last.replaced
    /\ last.age = 2
    /\ last.startDoc = <<"-", "-">>
    /\ doc = <<"-">>
    /\ ~prevTransactionState.stored

(***************************************************************************)
(* The cursor after a substitution, with guillemet texts of one and of two *)
(* characters (the settings tab accepts both).                             *)
(***************************************************************************)
GuillemetTexts == {<<"U+00AB">>, <<"x", "y">>}

CursorSettings(skipEnDash, guillemet) ==
    [AllEnabled(skipEnDash) EXCEPT !.openGuillemet = guillemet]

CursorLeads == {<<>>, <<"a">>, <<" ">>}

InitCursor ==
    \E skipEnDash \in BOOLEAN, guillemet \in GuillemetTexts,
       lead \in CursorLeads, stem \in Stems, trail \in Trails :
        /\ doc = lead \o stem \o trail
        /\ sel = <<Range(Len(lead \o stem), Len(lead \o stem))>>
        /\ prevTransactionState = NoRecord
        /\ settings = CursorSettings(skipEnDash, guillemet)
        /\ inputRules = buildInputRules(CursorSettings(skipEnDash, guillemet))
        /\ last = InitEvent

TypeCursorKey ==
    \E text \in RuleKeys :
        /\ last.op = "init"
        /\ InputType(text, <<"">>)

NextCursor == TypeCursorKey

SpecCursor == InitCursor /\ [][NextCursor]_vars

\* a rule fired on the key typed at the one cursor
FiredOnce == TypedOnce /\ ~last.error /\ last.fired[1] # <<>>

FiredRule == Rule(last.fired[1][1])

\* the cursor that the typing transaction asked for moved by the length of
\* the inserted text less the length of the text it stands for
ShiftedCursor ==
    last.tr.selection[1].head
        + Len(Insert(FiredRule, settings)) - Len(FiredRule.from)

\* C30: after a substitution at one cursor the selection is one cursor, at
\* the post-typing cursor moved by len(inserted text) - len(text it stands
\* for), and that is the offset right behind the inserted text; whatever
\* the rule and whether the configured text has one character or two.
Thm_C30_CursorAfterGlyph ==
    FiredOnce =>
        LET glyph == Insert(FiredRule, settings)
            start == TypedAt + Len(FiredRule.trigger) - Len(FiredRule.from)
        IN  /\ sel = <<Range(ShiftedCursor, ShiftedCursor)>>
            /\ ShiftedCursor = start + Len(glyph)
            /\ SubSeq(doc, start + 1, ShiftedCursor) = glyph
            /\ SubSeq(doc, 1, start) = SubSeq(last.startDoc, 1, start)

\* 1/10 became the tenth glyph and the cursor went three back
Wit_C30_CursorAfterGlyph ==
    /\ FiredOnce
    /\ FiredRule.from = <<"1", "/", "1", "0">>
    /\ ShiftedCursor = last.tr.selection[1].head - 3
    /\ sel[1].head = ShiftedCursor

(***************************************************************************)
(* The iterChanges callback rule by rule, with the memo of the positions   *)
(* already classified (seenPositions) and the list of the positions for    *)
(* which the syntax tree was resolved.                                     *)
(***************************************************************************)
NoMemo == [seen |-> <<>>, calls |-> <<>>, can |-> TRUE]

\* canPerformReplacement that resolves the node at every call
canPerformReplacementUncached(memo, pos, nodeProps) ==
    [seen |-> Append(memo.seen, <<pos, canPerformReplacement(nodeProps)>>),
     calls |-> Append(memo.calls, pos),
     can |-> canPerformReplacement(nodeProps)]

\* canPerformReplacement(pos): the memo after the call, with the answer
\* in `can`; the tree is resolved only for a position not seen yet
canPerformReplacementAt(memo, pos, nodeProps) ==
    IF \E j \in 1..Len(memo.seen) : memo.seen[j][1] = pos
    THEN [memo EXCEPT !.can =
             memo.seen[CHOOSE j \in 1..Len(memo.seen) : memo.seen[j][1] = pos][2]]
    ELSE [seen |-> Append(memo.seen, <<pos, canPerformReplacement(nodeProps)>>),
          calls |-> Append(memo.calls, pos),
          can |-> canPerformReplacement(nodeProps)]

RECURSIVE RuleLoop(_, _, _, _, _, _)
\* for (let rule of matchedRules), from the k-th rule on: the rule that
\* fires, as <<reference>>, and the memo
RuleLoop(matchedRules, k, context, pos, nodeProps, memo) ==
    IF k > Len(matchedRules) THEN [fired |-> <<>>, memo |-> memo]
    ELSE LET asked == canPerformReplacementAt(memo, pos, nodeProps)
         IN  IF ~asked.can THEN [fired |-> <<>>, memo |-> asked]
             ELSE IF RegExpTest(Rule(matchedRules[k]).contextMatch, context)
             THEN [fired |-> <<matchedRules[k]>>, memo |-> asked]
             ELSE RuleLoop(matchedRules, k + 1, context, pos, nodeProps, asked)

RECURSIVE Callbacks(_, _, _, _, _)
\* the callback run on changes 1..i: what fired at each and the memo
Callbacks(tr, startDoc, rules, nodeProps, i) ==
    IF i = 0 THEN [fired |-> <<>>, memo |-> NoMemo]
    ELSE LET before == Callbacks(tr, startDoc, rules, nodeProps, i - 1)
             here == RuleLoop(inputRuleMap(rules, tr.changes[i].insert), 1,
                              ContextAt(newDoc(tr, startDoc), fromB(tr.changes, i)),
                              tr.changes[i].from, nodeProps[i], before.memo)
         IN  [fired |-> Append(before.fired, here.fired), memo |-> here.memo]

VetoClasses == {"", "math"}

InitVeto == InitWith(DEFAULT_SETTINGS)

VetoKeys == {<<dashChar>>, <<"<">>}

TypeVeto ==
    \E text \in VetoKeys, nodeProps \in [1..Len(sel) -> VetoClasses] :
        /\ InputType(text, nodeProps)
        /\ Len(doc') <= MaxVetoLen

NextVeto ==
    \/ TypeVeto
    \/ MoveCursors

SpecVeto == InitVeto /\ [][NextVeto]_vars

\* the callback of the last typing transaction, rule by rule
LastCallbacks ==
    Callbacks(last.tr, last.startDoc, inputRules, last.nodeProps,
              Len(last.tr.changes))

\* the first rule with the text of change i as its trigger whose context
\* test passes there, whatever the classification
FirstPassingAt(i) ==
    LET matched == inputRuleMap(inputRules, last.tr.changes[i].insert)
        context == sliceString(newDoc(last.tr, last.startDoc),
                               fromB(last.tr.changes, i) - 3,
                               fromB(last.tr.changes, i))
        passing == {k \in 1..Len(matched) :
                       RegExpTest(Rule(matched[k]).contextMatch, context)}
    IN  IF passing = {} THEN <<>>
        ELSE <<matched[CHOOSE k \in passing : \A j \in passing : k <= j]>>

\* C31: in one typing transaction the syntax tree is resolved at most once
\* for each insertion position, however many rules are tried there; at a
\* vetoed position no rule fires; and at every other position of the same
\* transaction the first rule whose context test passes fires, whether or
\* not another position was vetoed.
Thm_C31_ClassifiedOncePerPosition ==
    last.op = "type" =>
        /\ \A j, k \in 1..Len(LastCallbacks.memo.calls) :
               j # k => LastCallbacks.memo.calls[j] # LastCallbacks.memo.calls[k]
        /\ LastCallbacks.fired = last.fired
        /\ \A i \in 1..Len(last.tr.changes) :
               IF last.nodeProps[i] = "math"
               THEN last.fired[i] = <<>>
               ELSE last.fired[i] = FirstPassingAt(i)

\* "-" typed at two cursors, one behind "<" in plain text, where the fourth
\* rule tried is the one that fires, and one in math, where none fires
Wit_C31_ClassifiedOncePerPosition ==
    /\ last.op = "type"
    /\ Len(last.tr.changes) = 2
    /\ last.nodeProps = <<"math", "">>
    /\ last.fired[1] = <<>>
    /\ last.fired[2] = <<<<"arrowRules", 1>>>>
    /\ Len(LastCallbacks.memo.calls) = 2

(***************************************************************************)
(* The classifications that veto, under SpecCode.                          *)
(***************************************************************************)
VetoingCategories == {"code", "math", "frontmatter", "templater"}

\* C32 (as stated): a substitution is vetoed exactly at the positions
\* classified as code, math, front matter or template syntax: nothing fires
\* there, and at a position without classification or with any other one
\* the first rule whose context test passes fires.
CE_C32_VetoingCategories ==
    last.op = "type" =>
        \A i \in 1..Len(last.tr.changes) :
            IF last.nodeProps[i] \in VetoingCategories
            THEN last.fired[i] = <<>>
            ELSE last.fired[i] = FirstPassingAt(i)

(***************************************************************************)
(* A trigger typed over a selection, under Spec.                           *)
(***************************************************************************)
\* the last event typed a key over one non-empty range and a rule fired
FiredOverSelection ==
    /\ last.op = "type"
    /\ ~last.error
    /\ Len(last.tr.changes) = 1
    /\ last.tr.changes[1].from < last.tr.changes[1].to
    /\ last.fired[1] # <<>>

\* the buffer of the plain keystroke with the matched text, which ends with
\* the typed trigger, replaced by what the rule inserts
PlainThenGlyph ==
    LET plain == newDoc(last.tr, last.startDoc)
        rule == Rule(last.fired[1][1])
        start == last.tr.changes[1].from - replacementLength(rule)
    IN  SubSeq(plain, 1, start) \o Insert(rule, settings)
            \o SubSeq(plain, start + Len(rule.from) + 1, Len(plain))

\* C33 (as stated): when the typed trigger replaces a non-empty selection
\* and a rule fires, the buffer is the one the plain keystroke would have
\* produced, the selected text gone, with the matched text replaced by the
\* glyph.
CE_C33_SelectionReplaced == FiredOverSelection => doc = PlainThenGlyph

(***************************************************************************)
(* The legacy (CodeMirror 5) engine: the beforeChange handler and the      *)
(* legacy rules.  The buffer is a sequence of characters with newline      *)
(* characters between the lines and there is one cursor.  A rule is        *)
(* [matchTrigger, from, open, to, back, revert]: matchRegExp tests that    *)
(* the line up to the cursor with the input appended ends with `from`      *)
(* (for an opening quote: right behind the start of the line or an opening *)
(* context character), performUpdate replaces `back` characters before the *)
(* change and the change itself by `to`, and performRevert is a function   *)
(* that puts `from` back for the glyph ("rewrite"), a function with an     *)
(* empty body ("nothing"), or false ("false").  A rule with a regular      *)
(* expression as its trigger has regexp = TRUE.  The paired-quote rules    *)
(* and the comparison rules, whose glyphs are settings that                *)
(* DEFAULT_SETTINGS does not define, are not modelled.                     *)
(***************************************************************************)
LegacyInputRule(matchTrigger, from, open, to, revert) ==
    [regexp |-> FALSE, matchTrigger |-> matchTrigger, from |-> from,
     open |-> open, to |-> to, back |-> Len(from) - Len(matchTrigger),
     revert |-> revert]

\* a wrapped-quote rule: the input is quote, any text, quote
WrappedQuote(quote, openField, closeField) ==
    [regexp |-> TRUE, matchTrigger |-> <<quote>>, from |-> <<>>,
     open |-> FALSE, to |-> <<openField, closeField>>, back |-> 0,
     revert |-> "false"]

legacyDashRules ==
    << LegacyInputRule(<<"-">>, <<"-", "-">>, FALSE,
                       Literal(<<enDashChar>>), "rewrite"),
       LegacyInputRule(<<"-">>, <<enDashChar, "-">>, FALSE,
                       Literal(<<emDashChar>>), "rewrite"),
       LegacyInputRule(<<"-">>, <<emDashChar, "-">>, FALSE,
                       Literal(<<"-", "-", "-">>), "nothing") >>

legacyEllipsisRules ==
    << LegacyInputRule(<<".">>, <<".", ".", ".">>, FALSE,
                       Literal(<<ellipsisChar>>), "rewrite") >>

legacySmartQuoteRules ==
    << LegacyInputRule(<<dquote>>, <<dquote>>, TRUE,
                       FromSettings(<<"openDouble">>), "rewrite"),
       LegacyInputRule(<<dquote>>, <<dquote>>, FALSE,
                       FromSettings(<<"closeDouble">>), "rewrite"),
       WrappedQuote(dquote, "openDouble", "closeDouble"),
       LegacyInputRule(<<squote>>, <<squote>>, TRUE,
                       FromSettings(<<"openSingle">>), "rewrite"),
       LegacyInputRule(<<squote>>, <<squote>>, FALSE,
                       FromSettings(<<"closeSingle">>), "rewrite"),
       WrappedQuote(squote, "openSingle", "closeSingle") >>

legacyArrowRules ==
    << LegacyInputRule(<<"-">>, <<"<", "-">>, FALSE,
                       FromSettings(<<"leftArrow">>), "rewrite"),
       LegacyInputRule(<<">">>, <<"-", ">">>, FALSE,
                       FromSettings(<<"rightArrow">>), "rewrite") >>

legacyGuillemetRules ==
    << LegacyInputRule(<<"<">>, <<"<", "<">>, FALSE,
                       Literal(<<"U+00AB">>), "rewrite"),
       LegacyInputRule(<<">">>, <<">", ">">>, FALSE,
                       Literal(<<"U+00BB">>), "rewrite") >>

\* this.legacyInputRules after buildInputRules
legacyInputRules(s) ==
    (IF s.emDash THEN legacyDashRules ELSE <<>>)
    \o (IF s.ellipsis THEN legacyEllipsisRules ELSE <<>>)
    \o (IF s.curlyQuotes THEN legacySmartQuoteRules ELSE <<>>)
    \o (IF s.arrows THEN legacyArrowRules ELSE <<>>)
    \o (IF s.guillemets THEN legacyGuillemetRules ELSE <<>>)

\* the change event handed to the handler
Delta(origin, from, to, text, lines) ==
    [origin |-> origin, from |-> from, to |-> to, text |-> text, lines |-> lines]

\* the offset at which the line of offset p starts
LineStart(text, p) ==
    LET breaks == {k \in 1..p : text[k] = newline}
    IN  IF breaks = {} THEN 0 ELSE CHOOSE k \in breaks : \A j \in breaks : j <= k

\* the offset at which the line of offset p ends
LineEnd(text, p) ==
    LET breaks == {k \in (p + 1)..Len(text) : text[k] = newline}
    IN  IF breaks = {} THEN Len(text)
        ELSE (CHOOSE k \in breaks : \A j \in breaks : k <= j) - 1

\* shouldCheckTextAtPos, tokens being the token type at pos
shouldCheckTextAtPos(text, pos, tokens) ==
    \/ LineStart(text, pos) = LineEnd(text, pos)
    \/ tokens = ""
    \/ ~ignoreListRegExTest(tokens)

\* rule.matchRegExp.test(str)
legacyMatchRegExp(rule, str) ==
    /\ Len(str) >= Len(rule.from)
    /\ SubSeq(str, Len(str) - Len(rule.from) + 1, Len(str)) = rule.from
    /\ rule.open =>
           (Len(str) = 1 \/ str[Len(str) - 1] \in OpenQuoteContext)

\* what stands for `from` after performUpdate
legacyGlyph(rule, s) ==
    IF rule.to.fn THEN s[rule.to.value[1]] ELSE rule.to.value

\* the change after rule.performUpdate called delta.update
performUpdate(rule, delta, s) ==
    IF rule.regexp
    THEN [delta EXCEPT !.text =
             s[rule.to[1]] \o SubSeq(delta.text, 2, Len(delta.text) - 1)
                 \o s[rule.to[2]]]
    ELSE [delta EXCEPT !.from = delta.from - rule.back,
                       !.text = legacyGlyph(rule, s)]

\* the change after rule.performRevert
performRevert(rule, text, delta, s) ==
    IF rule.revert = "rewrite"
          /\ SubSeq(text, delta.from + 1, delta.to) = legacyGlyph(rule, s)
    THEN [delta EXCEPT !.text = rule.from]
    ELSE delta

NoLegacyRecord == NoRecord

LegacyRecord(rule) == [stored |-> TRUE, rule |-> rule]

\* the positions of the rules whose string trigger is the input
TriggeredRules(rules, input) ==
    SelectSeq(rules, LAMBDA r : ~r.regexp /\ r.matchTrigger = input)

RECURSIVE FirstLegacyMatch(_, _, _)
FirstLegacyMatch(rules, str, k) ==
    IF k > Len(rules) THEN 0
    ELSE IF legacyMatchRegExp(rules[k], str) THEN k
    ELSE FirstLegacyMatch(rules, str, k + 1)

\* the rules with a regular expression as trigger that the input matches:
\* it starts and ends with the rule's quote
WrappingRules(rules, input) ==
    SelectSeq(rules, LAMBDA r : /\ r.regexp
                                /\ Len(input) >= 2
                                /\ input[1] = r.matchTrigger[1]
                                /\ input[Len(input)] = r.matchTrigger[1])

\* beforeChangeHandler: the change as the handler leaves it, the record
\* (this.legacyLastUpdate of the editor) and the string-trigger rule that
\* fired, as <<rule>>
beforeChangeHandler(text, record, delta, rules, s, tokens) ==
    IF record.stored /\ delta.origin = "+delete"
    THEN (IF record.rule.revert # "false"
          THEN [delta |-> performRevert(record.rule, text, delta, s),
                record |-> NoLegacyRecord, fired |-> <<>>]
          ELSE [delta |-> delta, record |-> record, fired |-> <<>>])
    ELSE IF delta.origin = "" /\ delta.lines = 1
    THEN (IF WrappingRules(rules, delta.text) # <<>>
          THEN [delta |-> performUpdate(WrappingRules(rules, delta.text)[1],
                                       delta, s),
                record |-> record, fired |-> <<>>]
          ELSE [delta |-> delta, record |-> record, fired |-> <<>>])
    ELSE IF delta.origin = "+input" /\ delta.lines = 1
    THEN LET triggered == TriggeredRules(rules, delta.text)
             str == SubSeq(text, LineStart(text, delta.to) + 1, delta.to)
                        \o delta.text
             k == FirstLegacyMatch(triggered, str, 1)
         IN  IF triggered = <<>>
             THEN [delta |-> delta, record |-> NoLegacyRecord, fired |-> <<>>]
             ELSE IF k = 0
             THEN [delta |-> delta, record |-> NoLegacyRecord, fired |-> <<>>]
             ELSE IF shouldCheckTextAtPos(text, delta.from, tokens)
                        /\ shouldCheckTextAtPos(text, delta.to, tokens)
             THEN [delta |-> performUpdate(triggered[k], delta, s),
                   record |-> LegacyRecord(triggered[k]),
                   fired |-> <<triggered[k]>>]
             ELSE [delta |-> delta, record |-> record, fired |-> <<>>]
    ELSE [delta |-> delta, record |-> NoLegacyRecord, fired |-> <<>>]

\* the position right behind the latest substitution once a change is applied
ShiftedPlace(at, delta) ==
    IF delta.to <= at THEN at - (delta.to - delta.from) + Len(delta.text)
    ELSE at

\* the change that takes `change` on the buffer `text` back
Inverse(text, change) ==
    [from |-> change.from, to |-> change.from + Len(change.text),
     text |-> SubSeq(text, change.from + 1, change.to)]

NoChange == [from |-> 0, to |-> 0, text |-> <<>>]

\* CodeMirror applies the change the handler left: the event `op` with the
\* change `delta` on a position of token type `tokens`.  The event record
\* keeps what the plain change would have given (plain), the end of the
\* change (to), the place right behind the latest substitution while its
\* record is pending, before (place) and after (at) the event, whether the
\* previous event was a substitution and its plain result (prev), and the
\* change that undoes the event (inverse).
LegacyChange(op, delta, tokens) ==
    LET out == beforeChangeHandler(doc, prevTransactionState, delta,
                                   inputRules, settings, tokens)
        change == out.delta
    IN  /\ doc' = SubSeq(doc, 1, change.from) \o change.text
                      \o SubSeq(doc, change.to + 1, Len(doc))
        /\ sel' = <<Range(change.from + Len(change.text),
                          change.from + Len(change.text))>>
        /\ prevTransactionState' = out.record
        /\ last' = [op |-> op, fired |-> out.fired # <<>>,
                    plain |-> SubSeq(doc, 1, delta.from) \o delta.text
                                  \o SubSeq(doc, delta.to + 1, Len(doc)),
                    to |-> delta.to,
                    place |-> last.at,
                    at |-> IF out.fired # <<>>
                           THEN change.from + Len(change.text)
                           ELSE IF out.record.stored
                           THEN ShiftedPlace(last.at, change)
                           ELSE 0,
                    prev |-> IF last.op = "type" /\ last.fired
                             THEN [fired |-> TRUE, plain |-> last.plain]
                             ELSE [fired |-> FALSE, plain |-> <<>>],
                    inverse |-> Inverse(doc, change)]
        /\ UNCHANGED <<settings, inputRules>>

\* the change events of the legacy engine
LegacyChanges ==
    {"type", "newline", "backspace", "delete", "programmatic", "paste", "undo"}

LegacyKeys == {<<dashChar>>, <<".">>, <<"a">>, <<dquote>>}

LegacyTokens == {"", "code"}

InitLegacy ==
    /\ doc = <<>>
    /\ sel = <<Range(0, 0)>>
    /\ prevTransactionState = NoLegacyRecord
    /\ settings = DEFAULT_SETTINGS
    /\ inputRules = legacyInputRules(DEFAULT_SETTINGS)
    /\ last = [op |-> "init", fired |-> FALSE, plain |-> <<>>, to |-> 0,
               place |-> 0, at |-> 0,
               prev |-> [fired |-> FALSE, plain |-> <<>>],
               inverse |-> NoChange]

\* a key typed at the cursor
LegacyType ==
    \E text \in LegacyKeys, tokens \in LegacyTokens :
        /\ Len(doc) < MaxLegacyLen
        /\ LegacyChange("type",
               Delta("+input", sel[1].head, sel[1].head, text, 1), tokens)

\* Enter typed at the cursor: an input of two empty lines
LegacyNewline ==
    /\ Len(doc) < MaxLegacyLen
    /\ LegacyChange("newline",
           Delta("+input", sel[1].head, sel[1].head, <<newline>>, 2), "")

\* Backspace
LegacyBackspace ==
    /\ sel[1].head > 0
    /\ LegacyChange("backspace",
           Delta("+delete", sel[1].head - 1, sel[1].head, <<>>, 1), "")

\* Delete
LegacyDelete ==
    /\ sel[1].head < Len(doc)
    /\ LegacyChange("delete",
           Delta("+delete", sel[1].head, sel[1].head + 1, <<>>, 1), "")

\* the cursor is moved by an arrow key or the mouse: no change event
LegacyMove ==
    \E p \in 0..Len(doc) :
        /\ p # sel[1].head
        /\ sel' = <<Range(p, p)>>
        /\ last' = [op |-> "move", fired |-> FALSE, plain |-> doc, to |-> p,
                    place |-> last.at, at |-> last.at,
                    prev |-> [fired |-> FALSE, plain |-> <<>>],
                    inverse |-> NoChange]
        /\ UNCHANGED <<doc, prevTransactionState, settings, inputRules>>

ProgrammaticTexts == {<<"a">>, <<dquote, "a", dquote>>}

\* a change made through the editor's API, which has no origin
LegacyProgrammatic ==
    \E text \in ProgrammaticTexts :
        /\ Len(doc) + Len(text) <= MaxLegacyLen
        /\ LegacyChange("programmatic",
               Delta("", sel[1].head, sel[1].head, text, 1), "")

LegacyPaste ==
    /\ Len(doc) < MaxLegacyLen
    /\ LegacyChange("paste",
           Delta("paste", sel[1].head, sel[1].head, <<dashChar>>, 1), "")

\* undo: the last change is taken back
LegacyUndo ==
    /\ last.op \in LegacyChanges \ {"undo"}
    /\ LegacyChange("undo",
           Delta("undo", last.inverse.from, last.inverse.to,
                 last.inverse.text, 1), "")

NextLegacy ==
    \/ LegacyType
    \/ LegacyNewline
    \/ LegacyBackspace
    \/ LegacyDelete
    \/ LegacyMove
    \/ LegacyProgrammatic
    \/ LegacyPaste
    \/ LegacyUndo

SpecLegacy == InitLegacy /\ [][NextLegacy]_vars

\* C35: in the legacy engine, Backspace pressed right after a string-trigger
\* rule substituted puts the typed literal back: the buffer is the one the
\* plain keystroke would have given (an em dash and a hyphen for the triple
\* dash).
CE_C35_LegacyRoundTrip ==
    (last.op = "backspace" /\ last.prev.fired) => doc = last.prev.plain

\* C36: in the legacy engine, after every change event that fires no
\* string-trigger rule there is no pending revert record.
CE_C36_NoRecordAfterOtherChanges ==
    (last.op \in LegacyChanges /\ ~last.fired)
        => ~prevTransactionState.stored

\* C37: in the legacy engine, a pending record is replayed only by a
\* backward delete at the place of the substitution: any other delete leaves
\* the buffer as the plain delete does.
CE_C37_ReplayOnlyInPlace ==
    (last.op \in {"backspace", "delete"} /\ doc # last.plain)
        => (last.op = "backspace" /\ last.to = last.place)

(***************************************************************************)
(* Well-formed transactions, under SpecMulti.                              *)
(***************************************************************************)
\* the transaction the filter returned for the last keystroke (the record is
\* read for deletes only)
Produced ==
    transactionFilter(last.tr, last.startDoc, NoRecord, inputRules, settings,
                      last.nodeProps)

\* C34: every transaction the filter builds for a typed keystroke, at one
\* cursor or several, is well-formed: its changes are ranges of the document
\* before the edit, the endpoints of its selection lie within the document
\* after the edit, and the inverse changes it stores are ranges of the
\* document after the edit.
CE_C34_WellFormed ==
    (last.op = "type" /\ SomeFired) =>
        /\ ChangesInRange(Produced.changes, last.startDoc)
        /\ SelectionInRange(Produced.selection,
                            ApplyChanges(last.startDoc, Produced.changes))
        /\ Produced.effects.store /\ Produced.effects.value.stored =>
               ChangesInRange(Produced.effects.value.changes,
                              ApplyChanges(last.startDoc, Produced.changes))

=============================================================================
